---- MODULE Spec2Model ----
(***************************************************************************)
(* Streaming conversation driver of the Pokedex assistant                  *)
(* (src/src/app/api/chat/route.ts): POST, safeControllerAction and the     *)
(* recursive processConversation, together with the part of                *)
(* ToolOrchestrator.executeTool the driver observes (request, success and  *)
(* error counters).                                                        *)
(*                                                                         *)
(* One behaviour is one user turn on one output stream.  The driver is a   *)
(* single async task: an action is the code that runs between two await    *)
(* points, and the caller's cancellation can only happen while the driver  *)
(* is suspended at one of them.                                            *)
(***************************************************************************)
EXTENDS Integers, Sequences, FiniteSets, TLC

\* ---------------------------------------------------------------- bounds
\* Content blocks the model starts in a turn.
MaxBlocks == 3
\* Delta chunks the model sends in a turn.
MaxDeltas == 2
\* Requests the orchestrator has served when its health is checked.
MaxServed == 20
\* executeTool calls made, one after the other.
MaxCalls == 2
\* Idle periods between the calls.
MaxPasses == 1
\* Attempts that run into their timeout.
MaxTimeouts == 1
\* executeTool calls made to handlers that may fail to complete in time.
MaxTimedCalls == 2
\* Capacity of the cache that is looked at on its own (maxSize).
CacheMaxSize == 2
\* Operations on that cache.
MaxCacheOps == 4
\* Calls of registerTool.
MaxRegistrations == 2
MaxPolicyAttempts == 3
MaxConcurrent == 2
MaxRandomCalls == 3

\* ------------------------------------------------------ program constants
\* processConversation: hard stop when depth > 5.
HardStopDepth == 5
\* processConversation: recurse only while depth < 2.
FollowUpDepth == 2

\* Tools the model asks for (registered in setup.ts).
ToolNames == {"get_pokemon_info"}

\* Text fragments a text_delta can carry (the empty one included).
TextDeltas == {"", "a", "b"}

\* Argument JSON is a sequence of lexical tokens; a fragment is a piece of it.
FragOpenA  == <<"{", "\"a\":1">>
FragBClose == <<",", "\"b\":2", "}">>
FragEmpty  == <<>>
JsonFragments == {FragOpenA, FragBClose, FragEmpty}

PairTokens == {"\"a\":1", "\"b\":2"}
PairOf(tok) == IF tok = "\"a\":1" THEN <<"a", 1>> ELSE <<"b", 2>>

EmptyObject == {}

ErrFirst    == "An error occurred while processing your request."
ErrFollowUp == "Error processing response"
ErrDepth    == "Maximum conversation depth reached"

VARIABLES
  pc,               \* position of the driver task
  depth,            \* depth argument of the innermost processConversation
  messages,         \* messages argument of the innermost processConversation
  fullMessage,      \* content of the assistant message being accumulated
  hasToolUse,
  currentTextBlock, \* index into fullMessage of the open text block, 0 = null
  currentToolBlock, \* index into fullMessage of the open tool block, 0 = null
  toolInputBuffer,
  toolResults,
  toolIdx,          \* position of the for-of loop over currentMessage.content
  updatedMessages,  \* the history extended after the tool loop
  streamState,      \* state of the ReadableStream behind the controller
  out,              \* chunks enqueued on the controller, in order
  metrics,          \* ToolOrchestrator.metrics
  \* environment and history variables
  cancelled,        \* the caller cancelled the output stream
  cancelPc,         \* driver position at the moment of cancellation
  mblock,           \* block the model has open: "none", "text", "tool"
  blocks,           \* content blocks the model has started in the turn
  deltas,           \* delta chunks the model has sent in the turn
  nextId,           \* next tool-call id the model hands out
  modelCalls,       \* anthropic.messages.create calls made in the turn
  respTools,        \* per model response: tool-call blocks the model started
  modelText,        \* non-empty text deltas the model sent inside text blocks
  ownFrags,         \* fragments the model sent for its open tool-call block
  stopLog,          \* tool-call blocks at block-stop: own fragments and input
  execLog,          \* executeTool calls: block id, arguments and result
  failedAt,         \* depth at which a model call/stream failed, -1 = none
  lateAttempts,     \* safeControllerAction calls made on a non-readable stream
  lateExec,         \* executeTool calls started after a mid-stream cancel
  \* the orchestrator on its own (ToolOrchestrator, IntelligentCache)
  opc,              \* position of the executeTool call in flight
  now,              \* the clock, in ms
  rateLimits,       \* ToolOrchestrator.rateLimits
  cache,            \* IntelligentCache.cache
  call,             \* locals of the executeTool call in flight
  last,             \* the executeTool call that has just returned, and its result
  tally,            \* results returned so far, by success
  calls,            \* executeTool calls made
  passes,           \* idle periods between calls
  lateRuns,         \* promises of the attempts that timed out
  stored,           \* what executeTool has put in the cache, and when
  health,           \* healthCheck: the counters read and the status returned
  keyPair,          \* generateCacheKey: two inputs and their keys
  lru,              \* an IntelligentCache on its own
  registry,         \* registerTool: the tools and handlers maps
  check,            \* validateInput: a schema, an input and the outcome
  procs,            \* executeTool calls that run concurrently
  retry,            \* executeWithRetries: a policy and the run under it
  random            \* the orchestrator under calls of get_random_pokemon

driverVars == <<pc, depth, messages>>
localVars  == <<fullMessage, hasToolUse, currentTextBlock, currentToolBlock,
                toolInputBuffer>>
loopVars   == <<toolResults, toolIdx, updatedMessages>>
ctrlVars   == <<streamState, out, lateAttempts>>
modelVars  == <<mblock, blocks, deltas, nextId, modelText, ownFrags, stopLog>>
turnVars   == <<modelCalls, respTools, failedAt>>
cancelVars == <<cancelled, cancelPc>>
vars == <<pc, depth, messages, fullMessage, hasToolUse, currentTextBlock,
          currentToolBlock, toolInputBuffer, toolResults, toolIdx,
          updatedMessages, streamState, out, metrics, cancelled, cancelPc,
          mblock, blocks, deltas, nextId, modelCalls, respTools, modelText, ownFrags,
          stopLog, execLog, failedAt, lateAttempts, lateExec,
          opc, now, rateLimits, cache, call, last, tally, calls, passes,
          lateRuns, stored, health, keyPair,
          lru, registry, check, procs, retry, random>>
\* What the conversation driver leaves alone.
orchVars  == <<opc, now, rateLimits, cache, call, last, tally, calls, passes,
               lateRuns, stored>>
\* The variables of the specifications of single components.
unitVars  == <<lru, registry, check, procs, retry, random>>
otherVars == <<orchVars, health, keyPair, unitVars>>
\* The driver's variables but metrics.
routeVars == <<driverVars, localVars, loopVars, ctrlVars, modelVars, turnVars,
               cancelVars, execLog, lateExec>>

\* ------------------------------------------------------------ controller
\* controller.desiredSize is null only for an errored stream; it is 0 for a
\* closed (or cancelled) one.
DesiredSizeIsNull(s) == s = "errored"

\* enqueue() and close() throw a TypeError unless the stream is readable and
\* close has not been requested.
CanCloseOrEnqueue(s) == s = "readable"

Enq(ev) == [op |-> "enqueue", ev |-> ev]
Close   == [op |-> "close"]

\* The closure handed to safeControllerAction: the operations run in order
\* and the first one that throws abandons the rest.
RECURSIVE RunAction(_, _, _)
RunAction(s, o, ops) ==
  IF ops = <<>> THEN [state |-> s, out |-> o, threw |-> FALSE]
  ELSE IF ~CanCloseOrEnqueue(s) THEN [state |-> s, out |-> o, threw |-> TRUE]
  ELSE IF Head(ops).op = "enqueue"
       THEN RunAction(s, Append(o, Head(ops).ev), Tail(ops))
       ELSE RunAction("closed", o, Tail(ops))

\* Variant without the try/catch: what the closure throws escapes.
SafeControllerActionNoCatch(s, o, ops) ==
  IF DesiredSizeIsNull(s)
  THEN [state |-> s, out |-> o, raised |-> FALSE]
  ELSE LET r == RunAction(s, o, ops)
       IN  [state |-> r.state, out |-> r.out, raised |-> r.threw]

\* try { if (desiredSize !== null) action() } catch { log or ignore }
SafeControllerAction(s, o, ops) ==
  IF DesiredSizeIsNull(s)
  THEN [state |-> s, out |-> o, raised |-> FALSE]
  ELSE LET r == RunAction(s, o, ops)
       IN  [state |-> r.state, out |-> r.out, raised |-> FALSE]

TextEvent(t)          == [type |-> "text", content |-> t]
ToolResultEvent(n, r) == [type |-> "tool_result", tool_name |-> n, result |-> r]
ErrorEvent(c)         == [type |-> "error", content |-> c]
DoneEvent             == [type |-> "done"]

\* Variants: the stream closed without the terminal event; the terminal
\* event enqueued before the error event.
DoneOpsCloseOnly          == <<Close>>
FollowUpErrorOpsDoneFirst ==
  <<Enq(DoneEvent), Enq(ErrorEvent(ErrFollowUp)), Close>>

\* The closures of the driver.
DoneOps          == <<Enq(DoneEvent), Close>>
FollowUpErrorOps == <<Enq(ErrorEvent(ErrFollowUp)), Enq(DoneEvent), Close>>
HardStopOps      == <<Enq(ErrorEvent(ErrDepth)), Enq(DoneEvent), Close>>
PostErrorOps     == <<Enq(ErrorEvent(ErrFirst)), Close>>

\* The driver calls safeControllerAction with the closure ops.
Emit(ops) ==
  LET r == SafeControllerAction(streamState, out, ops)
  IN  /\ streamState' = r.state
      /\ out' = r.out
      /\ lateAttempts' = IF streamState = "readable" THEN lateAttempts
                         ELSE lateAttempts + 1

\* -------------------------------------------------------------- JSON.parse
RECURSIVE MembersOk(_)
\* toks is the text between the braces: pair (, pair)*
MembersOk(toks) ==
  IF Len(toks) = 1 THEN toks[1] \in PairTokens
  ELSE /\ Len(toks) >= 3
       /\ toks[1] \in PairTokens
       /\ toks[2] = ","
       /\ MembersOk(SubSeq(toks, 3, Len(toks)))

JsonValid(buf) ==
  /\ Len(buf) >= 2
  /\ buf[1] = "{"
  /\ buf[Len(buf)] = "}"
  /\ \/ Len(buf) = 2
     \/ MembersOk(SubSeq(buf, 2, Len(buf) - 1))

\* The object a valid text denotes, as its set of <<key, value>> members.
JsonValue(buf) ==
  {PairOf(buf[i]) : i \in {j \in 2..(Len(buf) - 1) : buf[j] \in PairTokens}}

\* JSON.parse: the value, or a SyntaxError.
JsonParse(buf) ==
  IF JsonValid(buf) THEN [ok |-> TRUE, value |-> JsonValue(buf)]
  ELSE [ok |-> FALSE, value |-> EmptyObject]

\* JSON.stringify of a tool payload.
JsonStringify(v) == [json |-> v]

\* ------------------------------------------------------------------- Init
SystemMessage == [role |-> "system", content |-> "system prompt"]
UserMessage   == [role |-> "user", content |-> "question"]

\* No executeTool call, health check or key computation of its own.
NoCall == [none |-> TRUE]

\* The single components are not exercised.
UnitOff ==
  /\ lru = NoCall
  /\ registry = NoCall
  /\ check = NoCall
  /\ procs = NoCall
  /\ retry = NoCall
  /\ random = NoCall

\* The values the driver's variables have before POST.
RouteInit ==
  /\ pc = "start"
  /\ depth = 0
  /\ messages = <<SystemMessage, UserMessage>>
  /\ fullMessage = <<>>
  /\ hasToolUse = FALSE
  /\ currentTextBlock = 0
  /\ currentToolBlock = 0
  /\ toolInputBuffer = <<>>
  /\ toolResults = <<>>
  /\ toolIdx = 1
  /\ updatedMessages = <<>>
  /\ streamState = "readable"
  /\ out = <<>>
  /\ cancelled = FALSE
  /\ cancelPc = "none"
  /\ mblock = "none"
  /\ blocks = 0
  /\ deltas = 0
  /\ nextId = 1
  /\ modelCalls = 0
  /\ respTools = <<>>
  /\ modelText = <<>>
  /\ ownFrags = <<>>
  /\ stopLog = <<>>
  /\ execLog = <<>>
  /\ failedAt = -1
  /\ lateAttempts = 0
  /\ lateExec = 0

\* The orchestrator variables while only the driver is looked at.
OrchOff ==
  /\ opc = "off"
  /\ now = 0
  /\ rateLimits = <<>>
  /\ cache = <<>>
  /\ call = NoCall
  /\ last = NoCall
  /\ tally = [ok |-> 0, failed |-> 0]
  /\ calls = 0
  /\ passes = 0
  /\ lateRuns = <<>>
  /\ stored = {}

Init ==
  /\ RouteInit
  /\ metrics = [totalRequests |-> 0, successfulRequests |-> 0,
                errorsByTool |-> [n \in ToolNames |-> 0],
                requestsByTool |-> [n \in ToolNames |-> 0]]
  /\ OrchOff
  /\ health = NoCall
  /\ keyPair = NoCall
  /\ UnitOff

\* ---------------------------------------------------- processConversation
\* processConversation(controller, msgs, d) from its entry to the first
\* suspension of the for-await loop: the hard stop, or the call of
\* anthropic.messages.create and the initialisation of the accumulators.
\* pc = "stream" stands for both awaits on the model (the create call and the
\* next chunk); a failure or a cancellation can occur at either.
EnterProcessConversation(d, msgs) ==
  /\ depth' = d
  /\ messages' = msgs
  /\ IF d > HardStopDepth
     THEN /\ Emit(HardStopOps)
          /\ pc' = "done"
          /\ UNCHANGED <<localVars, mblock, modelCalls, respTools>>
     ELSE /\ pc' = "stream"
          /\ modelCalls' = modelCalls + 1
          /\ fullMessage' = <<>>
          /\ hasToolUse' = FALSE
          /\ currentTextBlock' = 0
          /\ currentToolBlock' = 0
          /\ toolInputBuffer' = <<>>
          /\ mblock' = "none"
          /\ respTools' = Append(respTools, 0)
          /\ UNCHANGED ctrlVars

\* POST: start(controller) calls processConversation at depth 0.
PostStart ==
  /\ pc = "start"
  /\ UNCHANGED otherVars
  /\ EnterProcessConversation(0, messages)
  /\ UNCHANGED <<loopVars, metrics, cancelVars, blocks, deltas, nextId,
                 modelText, ownFrags, stopLog, failedAt, execLog, lateExec>>

\* The model call rejects or the stream read throws.  At depth 0 the
\* exception reaches the catch of POST's start; deeper, it reaches the catch
\* around the recursive call in the frame above, which then returns normally.
ModelFail ==
  /\ pc = "stream"
  /\ UNCHANGED otherVars
  /\ failedAt' = depth
  /\ IF depth = 0 THEN Emit(PostErrorOps) ELSE Emit(FollowUpErrorOps)
  /\ pc' = "done"
  /\ UNCHANGED <<depth, messages, localVars, loopVars, metrics, cancelVars,
                 modelVars, modelCalls, respTools, execLog, lateExec>>

\* chunk: content_block_start with a text block.
BlockStartText ==
  /\ pc = "stream" /\ mblock = "none" /\ blocks < MaxBlocks
  /\ UNCHANGED otherVars
  /\ fullMessage' = Append(fullMessage, [type |-> "text", text |-> ""])
  /\ currentTextBlock' = Len(fullMessage) + 1
  /\ mblock' = "text"
  /\ blocks' = blocks + 1
  /\ UNCHANGED <<driverVars, hasToolUse, currentToolBlock, toolInputBuffer,
                 loopVars, ctrlVars, metrics, cancelVars, deltas, nextId,
                 modelText, ownFrags, stopLog, turnVars, execLog, lateExec>>

\* chunk: content_block_start with a tool_use block.
BlockStartTool ==
  /\ pc = "stream" /\ mblock = "none" /\ blocks < MaxBlocks
  /\ UNCHANGED otherVars
  /\ \E name \in ToolNames :
       fullMessage' = Append(fullMessage,
                             [type |-> "tool_use", id |-> nextId,
                              name |-> name, input |-> EmptyObject])
  /\ hasToolUse' = TRUE
  /\ currentToolBlock' = Len(fullMessage) + 1
  /\ toolInputBuffer' = <<>>
  /\ mblock' = "tool"
  /\ blocks' = blocks + 1
  /\ nextId' = nextId + 1
  /\ ownFrags' = <<>>
  /\ respTools' = [respTools EXCEPT ![Len(respTools)] = @ + 1]
  /\ UNCHANGED <<driverVars, currentTextBlock, loopVars, ctrlVars, metrics,
                 cancelVars, deltas, modelText, stopLog, modelCalls, failedAt,
                 execLog, lateExec>>

\* Variant without the `if (text)` test.
OnTextDeltaNoEmptyTest(text) ==
  IF currentTextBlock # 0
  THEN /\ fullMessage' = [fullMessage EXCEPT
                            ![currentTextBlock].text = @ \o text]
       /\ Emit(<<Enq(TextEvent(text))>>)
  ELSE UNCHANGED <<fullMessage, ctrlVars>>

\* The text_delta branch of the loop body.
OnTextDelta(text) ==
  IF currentTextBlock # 0 /\ text # ""
  THEN /\ fullMessage' = [fullMessage EXCEPT
                            ![currentTextBlock].text = @ \o text]
       /\ Emit(<<Enq(TextEvent(text))>>)
  ELSE UNCHANGED <<fullMessage, ctrlVars>>

\* chunk: content_block_delta carrying a text_delta.
TextDelta ==
  /\ pc = "stream" /\ mblock = "text" /\ deltas < MaxDeltas
  /\ UNCHANGED otherVars
  /\ \E text \in TextDeltas :
       /\ OnTextDelta(text)
       /\ modelText' = IF text # "" THEN Append(modelText, text) ELSE modelText
  /\ deltas' = deltas + 1
  /\ UNCHANGED <<driverVars, hasToolUse, currentTextBlock, currentToolBlock,
                 toolInputBuffer, loopVars, metrics, cancelVars, mblock,
                 blocks, nextId, ownFrags, stopLog, turnVars, execLog, lateExec>>

\* Variant that keeps only the latest fragment.
OnInputJsonDeltaAssign(buffer, partial_json) == partial_json

\* The input_json_delta branch of the loop body.
OnInputJsonDelta(buffer, partial_json) == buffer \o partial_json

\* chunk: content_block_delta carrying an input_json_delta.
InputJsonDelta ==
  /\ pc = "stream" /\ mblock = "tool" /\ deltas < MaxDeltas
  /\ UNCHANGED otherVars
  /\ \E partial_json \in JsonFragments :
       /\ toolInputBuffer' =
            IF currentToolBlock # 0
            THEN OnInputJsonDelta(toolInputBuffer, partial_json)
            ELSE toolInputBuffer
       /\ ownFrags' = ownFrags \o partial_json
  /\ deltas' = deltas + 1
  /\ UNCHANGED <<driverVars, fullMessage, hasToolUse, currentTextBlock,
                 currentToolBlock, loopVars, ctrlVars, metrics, cancelVars,
                 mblock, blocks, nextId, modelText, stopLog, turnVars, execLog,
                 lateExec>>

\* The tool input assigned at content_block_stop.
InputAtStop(buffer) ==
  LET r == JsonParse(buffer)
  IN  IF r.ok THEN r.value ELSE EmptyObject

\* The tool_use block with the given id in a message content.
BlockWithId(content, id) ==
  LET i == CHOOSE j \in 1..Len(content) :
             content[j].type = "tool_use" /\ content[j].id = id
  IN  content[i]

\* chunk: content_block_stop.
BlockStop ==
  /\ pc = "stream" /\ mblock # "none"
  /\ UNCHANGED otherVars
  /\ fullMessage' =
       IF currentToolBlock # 0 /\ toolInputBuffer # <<>>
       THEN [fullMessage EXCEPT
               ![currentToolBlock].input = InputAtStop(toolInputBuffer)]
       ELSE fullMessage
  /\ currentTextBlock' = 0
  /\ currentToolBlock' = 0
  /\ toolInputBuffer' = <<>>
  /\ mblock' = "none"
  /\ stopLog' = IF mblock = "tool"
                THEN Append(stopLog,
                            [id |-> nextId - 1, own |-> ownFrags,
                             input |-> BlockWithId(fullMessage', nextId - 1).input])
                ELSE stopLog
  /\ UNCHANGED <<driverVars, hasToolUse, loopVars, ctrlVars, metrics,
                 cancelVars, blocks, deltas, nextId, modelText, ownFrags,
                 turnVars, execLog, lateExec>>

\* chunk: message_stop (or the end of the stream).  Without a tool use the
\* turn is complete; with one the tool loop starts.
MessageStop ==
  /\ pc = "stream" /\ mblock = "none"
  /\ UNCHANGED otherVars
  /\ IF hasToolUse
     THEN /\ toolResults' = <<>>
          /\ toolIdx' = 1
          /\ pc' = "tools"
          /\ UNCHANGED ctrlVars
     ELSE /\ Emit(DoneOps)
          /\ pc' = "done"
          /\ UNCHANGED <<toolResults, toolIdx>>
  /\ UNCHANGED <<depth, messages, localVars, updatedMessages, metrics,
                 cancelVars, modelVars, turnVars, execLog, lateExec>>

\* ------------------------------------------------------------ tool loop
\* Position of the first tool_use block at or after i (Len + 1 if none).
RECURSIVE NextTool(_, _)
NextTool(content, i) ==
  IF i > Len(content) THEN Len(content) + 1
  ELSE IF content[i].type = "tool_use" THEN i
  ELSE NextTool(content, i + 1)

\* Variant that forgets the tool's earlier requests.
UpdateRequestMetricsFromZero(m, toolName) ==
  [m EXCEPT !.totalRequests = @ + 1, !.requestsByTool[toolName] = 1]

\* ToolOrchestrator.updateRequestMetrics
UpdateRequestMetrics(m, toolName) ==
  [m EXCEPT !.totalRequests = @ + 1, !.requestsByTool[toolName] = @ + 1]

\* ToolOrchestrator.updateErrorMetrics
UpdateErrorMetrics(m, toolName) ==
  [m EXCEPT !.errorsByTool[toolName] = @ + 1]

\* The data a tool hands back for a call.
ToolData(name, input) == [tool |-> name, input |-> input]

\* Placeholder of the result of a call that has not resolved yet.
NoResult == [pending |-> TRUE]

ToolError == [code |-> "INTERNAL_ERROR", message |-> "tool failed"]

\* The result executeTool resolves with.
ExecResult(success, name, input) ==
  IF success THEN [success |-> TRUE, data |-> ToolData(name, input)]
  ELSE [success |-> FALSE, error |-> ToolError]

\* Variant that drops the error wrapper of a failed result.
ToolPayloadNoErrorField(result) ==
  IF result.success THEN result.data ELSE [message |-> result.error.message]

\* const toolResult = result.success ? result.data : { error: result.error }
ToolPayload(result) ==
  IF result.success THEN result.data ELSE [error |-> result.error]

\* Variant that attaches every result to the first tool call's id.
ToolResultEntryFirstId(id, payload) ==
  [type |-> "tool_result", tool_use_id |-> 1,
   content |-> JsonStringify(payload)]

\* toolResults.push({ type, tool_use_id: content.id, content })
ToolResultEntry(id, payload) ==
  [type |-> "tool_result", tool_use_id |-> id,
   content |-> JsonStringify(payload)]

\* The loop reaches a tool_use block and calls orchestrator.executeTool,
\* which counts the request before it first suspends.
ToolStart ==
  /\ pc = "tools"
  /\ UNCHANGED otherVars
  /\ LET j == NextTool(fullMessage, toolIdx) IN
       /\ j <= Len(fullMessage)
       /\ toolIdx' = j
       /\ metrics' = UpdateRequestMetrics(metrics, fullMessage[j].name)
       /\ execLog' = Append(execLog,
                            [id |-> fullMessage[j].id,
                             name |-> fullMessage[j].name,
                             input |-> fullMessage[j].input,
                             returned |-> FALSE,
                             result |-> NoResult])
  /\ lateExec' = IF cancelled /\ cancelPc = "stream" THEN lateExec + 1
                 ELSE lateExec
  /\ pc' = "awaitTool"
  /\ UNCHANGED <<depth, messages, localVars, toolResults, updatedMessages,
                 ctrlVars, cancelVars, modelVars, turnVars>>

\* executeTool resolves (it never rejects, so the catch of the loop body is
\* not entered): the orchestrator counts the outcome, the driver records the
\* payload and streams the tool_result event.
ToolReturn ==
  /\ pc = "awaitTool"
  /\ UNCHANGED otherVars
  /\ \E success \in BOOLEAN :
       LET content == fullMessage[toolIdx]
           result  == ExecResult(success, content.name, content.input)
       IN  /\ metrics' = IF success
                         THEN [metrics EXCEPT !.successfulRequests = @ + 1]
                         ELSE UpdateErrorMetrics(metrics, content.name)
           /\ toolResults' = Append(toolResults,
                                    ToolResultEntry(content.id,
                                                    ToolPayload(result)))
           /\ Emit(<<Enq(ToolResultEvent(content.name, result))>>)
           /\ execLog' = [execLog EXCEPT ![Len(execLog)].returned = TRUE,
                                          ![Len(execLog)].result = result]
  /\ toolIdx' = toolIdx + 1
  /\ pc' = "tools"
  /\ UNCHANGED <<depth, messages, localVars, updatedMessages, cancelVars,
                 modelVars, turnVars, lateExec>>

\* Variant: recursion limited by the hard stop alone.
MayRecurseToHardStop(d) == d <= HardStopDepth

\* if (depth < 2)
MayRecurse(d) == d < FollowUpDepth

\* After the loop: the history is extended and the conversation continues
\* with one more model call, or ends at the depth limit.
ContinueConversation ==
  /\ pc = "tools"
  /\ UNCHANGED otherVars
  /\ NextTool(fullMessage, toolIdx) > Len(fullMessage)
  /\ LET updated == messages \o
                    <<[role |-> "assistant", content |-> fullMessage],
                      [role |-> "user", content |-> toolResults]>>
     IN  /\ updatedMessages' = updated
         /\ IF MayRecurse(depth)
            THEN EnterProcessConversation(depth + 1, updated)
            ELSE /\ Emit(DoneOps)
                 /\ pc' = "done"
                 /\ UNCHANGED <<depth, messages, localVars, mblock,
                                modelCalls, respTools>>
  /\ UNCHANGED <<toolResults, toolIdx, metrics, cancelVars, blocks, deltas,
                 nextId, modelText, ownFrags, stopLog, failedAt, execLog,
                 lateExec>>

\* -------------------------------------------------------------- the caller
\* The caller cancels the output stream while the driver is suspended.  The
\* underlying source has no cancel callback: only the stream changes state.
Cancel ==
  /\ pc \in {"stream", "awaitTool"}
  /\ UNCHANGED otherVars
  /\ streamState = "readable"
  /\ streamState' = "closed"
  /\ cancelled' = TRUE
  /\ cancelPc' = pc
  /\ UNCHANGED <<driverVars, localVars, loopVars, out, lateAttempts, metrics,
                 modelVars, turnVars, execLog, lateExec>>

Next ==
  \/ PostStart
  \/ ModelFail
  \/ BlockStartText
  \/ BlockStartTool
  \/ TextDelta
  \/ InputJsonDelta
  \/ BlockStop
  \/ MessageStop
  \/ ToolStart
  \/ ToolReturn
  \/ ContinueConversation
  \/ Cancel

Spec == Init /\ [][Next]_vars


\* The turn without caller cancellation and without model failure.
LiveNext ==
  \/ PostStart
  \/ BlockStartText
  \/ BlockStartTool
  \/ TextDelta
  \/ InputJsonDelta
  \/ BlockStop
  \/ MessageStop
  \/ ToolStart
  \/ ToolReturn
  \/ ContinueConversation

\* The event loop keeps running the driver task while it has a step to take.
LiveSpec == Init /\ [][LiveNext]_vars /\ WF_vars(LiveNext)


\* ============================================================ orchestrator
\* ----------------------------------------------------------------- errors
\* enum ErrorCode
ErrorCode ==
  {"INVALID_INPUT", "MISSING_REQUIRED_FIELD", "INVALID_FIELD_TYPE",
   "TOOL_NOT_FOUND", "TOOL_EXECUTION_FAILED", "TOOL_TIMEOUT",
   "RATE_LIMIT_EXCEEDED", "EXTERNAL_API_ERROR", "NETWORK_ERROR",
   "API_UNAVAILABLE", "INTERNAL_ERROR", "CONFIGURATION_ERROR",
   "RESOURCE_EXHAUSTED"}

\* Thrown values.  An OrchestrationError carries a code of the taxonomy; a
\* plain Error carries only a message; anything else can be thrown too.
OrchestrationError(code) == [kind |-> "OrchestrationError", code |-> code]
ValidationError   == OrchestrationError("INVALID_INPUT")
ToolNotFoundError == OrchestrationError("TOOL_NOT_FOUND")
RateLimitError    == OrchestrationError("RATE_LIMIT_EXCEEDED")
\* Variant that does not tell a timeout from another failure.
ToolTimeoutErrorUntyped == OrchestrationError("INTERNAL_ERROR")
ToolTimeoutError == OrchestrationError("TOOL_TIMEOUT")
ExternalApiError  == OrchestrationError("EXTERNAL_API_ERROR")
PlainError        == [kind |-> "Error", code |-> "none"]
ThrownValue       == [kind |-> "value", code |-> "none"]

\* Variant that hands the thrown value on as it is.
FromUnknownAsIs(error) == error

\* OrchestrationError.fromUnknown
FromUnknown(error) ==
  IF error.kind = "OrchestrationError" THEN error
  ELSE OrchestrationError("INTERNAL_ERROR")

\* ------------------------------------------------------------------ tools
\* TOOL_DEFINITIONS of setup.ts: the lookup tool and the team analysis.
PokemonInfoTool ==
  [name |-> "get_pokemon_info",
   category |-> "pokemon",
   required |-> <<"pokemon">>,
   properties |-> {<<"pokemon", "string">>},
   rateLimit |-> [maxRequests |-> 100, windowMs |-> 60000],
   timeout |-> 15000,
   retryConfig |-> [maxAttempts |-> 3, backoffMs |-> 1000,
                    exponential |-> TRUE]]

TeamAnalysisTool ==
  [name |-> "analyze_pokemon_team",
   category |-> "team",
   required |-> <<"team_members">>,
   properties |-> {<<"team_members", "string">>},
   rateLimit |-> [maxRequests |-> 30, windowMs |-> 60000],
   timeout |-> 25000,
   retryConfig |-> [maxAttempts |-> 2, backoffMs |-> 2000,
                    exponential |-> TRUE]]

ToolDefinitions == {PokemonInfoTool, TeamAnalysisTool}
RegisteredNames == {t.name : t \in ToolDefinitions}
\* this.tools.get(toolName), for a registered name
ToolOf(toolName) == CHOOSE t \in ToolDefinitions : t.name = toolName

\* Idle periods: a rate-limit window, and just over the cache lifetime of a
\* lookup.
PassDurations == {60000, 86400001}

\* A name the model may ask for that no tool is registered under.
UnknownTool == "get_weather"
CalledNames == RegisteredNames \cup {UnknownTool}

\* ----------------------------------------------------------------- inputs
\* An input object is the sequence of its fields in insertion order; a value
\* is its type and its JSON text.
StringValue(text) == [type |-> "string", text |-> text]
NumberValue(text) == [type |-> "number", text |-> text]
BooleanValue(text) == [type |-> "boolean", text |-> text]
ArrayValue(text) == [type |-> "array", text |-> text]
ObjectValue(text) == [type |-> "object", text |-> text]
\* An object value given by its own fields, in insertion order.
ObjectOf(fields) == [type |-> "object", fields |-> fields]
NullValue == [type |-> "null", text |-> "null"]
UndefinedValue == [type |-> "undefined", text |-> "undefined"]
\* Whether a value counts as true in a condition.
Truthy(value) ==
  CASE value.type \in {"null", "undefined"} -> FALSE
    [] value.type = "string" -> value.text # ""
    [] value.type = "number" -> value.text \notin {"0", "NaN"}
    [] value.type = "boolean" -> value.text = "true"
    [] OTHER -> TRUE
\* typeof value
TypeOf(value) ==
  IF value.type \in {"array", "object", "null"} THEN "object" ELSE value.type
\* Array.isArray(value)
IsArray(value) == value.type = "array"
\* isNaN(value) of a number
IsNaN(value) == value.text = "NaN"
Field(k, v) == [key |-> k, value |-> v]

\* Object.keys(input)
ObjectKeys(input) == [i \in 1..Len(input) |-> input[i].key]
HasKey(input, k) == \E i \in 1..Len(input) : input[i].key = k
ValueOf(input, k) ==
  input[CHOOSE i \in 1..Len(input) : input[i].key = k].value
\* The mapping an input object is, whatever its insertion order.
AsMapping(input) == {<<input[i].key, input[i].value>> : i \in 1..Len(input)}

\* UTF-16 code units of the strings that occur in inputs.
CodeUnits(str) ==
  CASE str = "pokemon"      -> <<112, 111, 107, 101, 109, 111, 110>>
    [] str = "lang"         -> <<108, 97, 110, 103>>
    [] str = "id"           -> <<105, 100>>
    [] str = "team_members" -> <<116, 101, 97, 109, 95, 109, 101, 109, 98,
                                 101, 114, 115>>
    [] str = "pikachu"      -> <<112, 105, 107, 97, 99, 104, 117>>
    [] str = "pikachu,eevee" -> <<112, 105, 107, 97, 99, 104, 117, 44, 101,
                                  101, 118, 101, 101>>
    [] str = "en"           -> <<101, 110>>
    [] str = "25"           -> <<50, 53>>
    [] str = "7"            -> <<55>>
    [] str = "filter"       -> <<102, 105, 108, 116, 101, 114>>
    [] str = "type"         -> <<116, 121, 112, 101>>
    [] str = "fire"         -> <<102, 105, 114, 101>>
    [] str = "water"        -> <<119, 97, 116, 101, 114>>
    [] str = "{"            -> <<123>>
    [] str = "}"            -> <<125>>
    [] str = ","            -> <<44>>
    [] str = ":"            -> <<58>>
    [] str = "\""           -> <<34>>

RECURSIVE SeqLess(_, _)
\* Lexicographic order on code-unit sequences (the default sort order).
SeqLess(a, b) ==
  IF b = <<>> THEN FALSE
  ELSE IF a = <<>> THEN TRUE
  ELSE IF Head(a) # Head(b) THEN Head(a) < Head(b)
  ELSE SeqLess(Tail(a), Tail(b))

RECURSIVE InsertSorted(_, _)
InsertSorted(sorted, k) ==
  IF sorted = <<>> THEN <<k>>
  ELSE IF SeqLess(CodeUnits(k), CodeUnits(Head(sorted)))
       THEN <<k>> \o sorted
       ELSE <<Head(sorted)>> \o InsertSorted(Tail(sorted), k)

RECURSIVE ArraySort(_)
\* Array.prototype.sort() on an array of strings.
ArraySort(keys) ==
  IF keys = <<>> THEN <<>>
  ELSE InsertSorted(ArraySort(SubSeq(keys, 1, Len(keys) - 1)), keys[Len(keys)])

Quoted(str) == CodeUnits("\"") \o CodeUnits(str) \o CodeUnits("\"")

RECURSIVE StringifyMembers(_, _, _)
\* JSON text of a value. The property list given as replacer applies to
\* every object of the value, the nested ones as well.
StringifyValue(v, replacer) ==
  IF v.type = "string" THEN Quoted(v.text)
  ELSE IF v.type = "object" /\ "fields" \in DOMAIN v
       THEN CodeUnits("{") \o StringifyMembers(v.fields, replacer, TRUE)
              \o CodeUnits("}")
       ELSE CodeUnits(v.text)

\* The members named by the replacer list, in the order of the list.
StringifyMembers(input, replacer, first) ==
  IF replacer = <<>> THEN <<>>
  ELSE IF ~HasKey(input, Head(replacer))
       THEN StringifyMembers(input, Tail(replacer), first)
       ELSE (IF first THEN <<>> ELSE CodeUnits(","))
              \o Quoted(Head(replacer)) \o CodeUnits(":")
              \o StringifyValue(ValueOf(input, Head(replacer)), replacer)
              \o StringifyMembers(input, Tail(replacer), FALSE)

\* JSON.stringify(input, replacer) with an array replacer.
StringifyWithReplacer(input, replacer) ==
  CodeUnits("{") \o StringifyMembers(input, replacer, TRUE) \o CodeUnits("}")

\* 32-bit integers are kept as two 16-bit halves <<high, low>>.
Half == 65536

\* hash = ((hash << 5) - hash) + char; hash = hash & hash
HashStep(hash, char) ==
  LET low  == 31 * hash[2] + char
      high == 31 * hash[1] + (low \div Half)
  IN  <<high % Half, low % Half>>

RECURSIVE HashRange(_, _, _, _)
\* The loop of hashString over str[lo..hi], from hash: the range is run
\* through in order, the first half and then, from its result, the second.
HashRange(hash, str, lo, hi) ==
  IF lo > hi THEN hash
  ELSE IF lo = hi THEN HashStep(hash, str[lo])
  ELSE LET mid == (lo + hi) \div 2
       IN  CHOOSE h \in {HashRange(first, str, mid + 1, hi) :
                            first \in {HashRange(hash, str, lo, mid)}} : TRUE

HashFold(hash, str) ==
  CHOOSE h \in {HashRange(hash, s, 1, Len(s)) : s \in {str}} : TRUE

\* Math.abs of a 32-bit integer, as a number below 2^32.
MathAbs(hash) ==
  IF hash[1] < Half \div 2 THEN hash
  ELSE IF hash[2] = 0 THEN <<Half - hash[1], 0>>
  ELSE <<Half - 1 - hash[1], Half - hash[2]>>

RECURSIVE Digits36(_)
Digits36(n) ==
  IF n = <<0, 0>> THEN <<>>
  ELSE LET rest == (n[1] % 36) * Half + n[2]
       IN  Append(Digits36(<<n[1] \div 36, rest \div 36>>), rest % 36)

\* Number.prototype.toString(36), as the sequence of digit values.
ToString36(n) == IF n = <<0, 0>> THEN <<0>> ELSE Digits36(n)

\* IntelligentCache.hashString
HashString(str) == ToString36(MathAbs(HashFold(<<0, 0>>, str)))

\* Variant that serialises the fields in insertion order.
GenerateCacheKeyUnsorted(toolName, input) ==
  [tool |-> toolName,
   hash |-> HashString(StringifyWithReplacer(input, ObjectKeys(input)))]

\* IntelligentCache.generateCacheKey
GenerateCacheKey(toolName, input) ==
  [tool |-> toolName,
   hash |-> HashString(StringifyWithReplacer(input,
                                             ArraySort(ObjectKeys(input))))]

\* ----------------------------------------------------- executeTool alone
\* ORCHESTRATOR_CONFIG.cache.defaultTtlMs
DefaultTtlMs == 1800000
\* calculateCacheTtl: 24 hours, 4 hours
PokemonTtlMs == 86400000
TeamTtlMs    == 14400000

\* toolName.includes(part), for the names of the model.
NameIncludes(toolName, part) ==
  \/ part = "pokemon" /\ toolName \in {"get_pokemon_info", "analyze_pokemon_team"}
  \/ part = "team" /\ toolName = "analyze_pokemon_team"

\* ToolOrchestrator.calculateCacheTtl
CalculateCacheTtl(toolName) ==
  IF NameIncludes(toolName, "pokemon") \/ NameIncludes(toolName, "species")
  THEN PokemonTtlMs
  ELSE IF NameIncludes(toolName, "team") \/ NameIncludes(toolName, "analysis")
       THEN TeamTtlMs
       ELSE DefaultTtlMs

\* Map.set
MapSet(map, k, v) ==
  [x \in DOMAIN map \cup {k} |-> IF x = k THEN v ELSE map[x]]
\* Map.delete
MapDelete(map, k) == [x \in DOMAIN map \ {k} |-> map[x]]

\* Variant that does not count the requests it lets through.
CheckRateLimitNoCount(limits, toolName, rateLimit, t) ==
  IF toolName \notin DOMAIN limits
  THEN [threw |-> FALSE,
        limits |-> MapSet(limits, toolName, [requests |-> 1, windowStart |-> t])]
  ELSE LET entry == limits[toolName] IN
    IF t - entry.windowStart >= rateLimit.windowMs
    THEN [threw |-> FALSE,
          limits |-> MapSet(limits, toolName, [requests |-> 1, windowStart |-> t])]
    ELSE [threw |-> entry.requests >= rateLimit.maxRequests, limits |-> limits]

\* Variant that lets one request more through.
CheckRateLimitStrict(limits, toolName, rateLimit, t) ==
  IF toolName \notin DOMAIN limits
  THEN [threw |-> FALSE,
        limits |-> MapSet(limits, toolName, [requests |-> 1, windowStart |-> t])]
  ELSE LET entry == limits[toolName] IN
    IF t - entry.windowStart >= rateLimit.windowMs
    THEN [threw |-> FALSE,
          limits |-> MapSet(limits, toolName, [requests |-> 1, windowStart |-> t])]
    ELSE IF entry.requests > rateLimit.maxRequests
    THEN [threw |-> TRUE, limits |-> limits]
    ELSE [threw |-> FALSE,
          limits |-> MapSet(limits, toolName,
                            [requests |-> entry.requests + 1,
                             windowStart |-> entry.windowStart])]

\* ToolOrchestrator.checkRateLimit at time t: whether it throws the
\* RateLimitError, and the entries it leaves.
CheckRateLimit(limits, toolName, rateLimit, t) ==
  IF toolName \notin DOMAIN limits
  THEN [threw |-> FALSE,
        limits |-> MapSet(limits, toolName, [requests |-> 1, windowStart |-> t])]
  ELSE LET entry == limits[toolName] IN
    IF t - entry.windowStart >= rateLimit.windowMs
    THEN [threw |-> FALSE,
          limits |-> MapSet(limits, toolName, [requests |-> 1, windowStart |-> t])]
    ELSE IF entry.requests >= rateLimit.maxRequests
    THEN [threw |-> TRUE, limits |-> limits]
    ELSE [threw |-> FALSE,
          limits |-> MapSet(limits, toolName,
                            [requests |-> entry.requests + 1,
                             windowStart |-> entry.windowStart])]

\* Variant that goes by typeof alone.
IsValidTypeByTypeof(value, expectedType) ==
  CASE expectedType = "string" -> TypeOf(value) = "string"
    [] expectedType = "number" -> TypeOf(value) = "number"
    [] expectedType = "boolean" -> TypeOf(value) = "boolean"
    [] expectedType = "array" -> TypeOf(value) = "object"
    [] expectedType = "object" -> TypeOf(value) = "object"
    [] OTHER -> TRUE

\* ToolOrchestrator.isValidType
IsValidType(value, expectedType) ==
  CASE expectedType = "string" -> TypeOf(value) = "string"
    [] expectedType = "number" -> TypeOf(value) = "number" /\ ~IsNaN(value)
    [] expectedType = "boolean" -> TypeOf(value) = "boolean"
    [] expectedType = "array" -> IsArray(value)
    [] expectedType = "object" ->
         TypeOf(value) = "object" /\ value # NullValue /\ ~IsArray(value)
    [] OTHER -> TRUE

\* Variant that accepts every input.
ValidateInputLenient(tool, input) == TRUE

\* ToolOrchestrator.validateInput: TRUE unless it throws the ValidationError.
ValidateInput(tool, input) ==
  /\ \A i \in 1..Len(tool.required) : HasKey(input, tool.required[i])
  /\ \A i \in 1..Len(input) :
       \A prop \in tool.properties :
         prop[1] = input[i].key => IsValidType(input[i].value, prop[2])

\* Variant with the expiry test reversed.
CacheGetReversed(entries, key, t) ==
  IF key \notin DOMAIN entries
  THEN [found |-> FALSE, entries |-> entries]
  ELSE LET entry == entries[key] IN
    IF t - entry.timestamp <= entry.ttlMs
    THEN [found |-> FALSE, entries |-> MapDelete(entries, key)]
    ELSE [found |-> TRUE, data |-> entry.data,
          entries |-> MapSet(entries, key, [entry EXCEPT !.hits = @ + 1])]

\* IntelligentCache.get at time t.
CacheGet(entries, key, t) ==
  IF key \notin DOMAIN entries
  THEN [found |-> FALSE, entries |-> entries]
  ELSE LET entry == entries[key] IN
    IF t - entry.timestamp > entry.ttlMs
    THEN [found |-> FALSE, entries |-> MapDelete(entries, key)]
    ELSE [found |-> TRUE, data |-> entry.data,
          entries |-> MapSet(entries, key, [entry EXCEPT !.hits = @ + 1])]

\* Variant of Cleanup that also removes the entries whose age is their TTL.
CleanupInclusive(entries, t) ==
  [k \in {x \in DOMAIN entries : ~(t - entries[x].timestamp >= entries[x].ttlMs)}
     |-> entries[k]]

\* IntelligentCache.cleanup at time t.
Cleanup(entries, t) ==
  [k \in {x \in DOMAIN entries : ~(t - entries[x].timestamp > entries[x].ttlMs)}
     |-> entries[k]]

\* Period of the timer that runs cleanup.
CleanupIntervalMs == 60000
\* The last time up to t at which that timer fired.
LastCleanupTick(t) == (t \div CleanupIntervalMs) * CleanupIntervalMs

\* IntelligentCache.set at time t (the store is far from its capacity).
CacheSet(entries, key, data, ttlMs, t) ==
  MapSet(entries, key,
         [data |-> data, timestamp |-> t, ttlMs |-> ttlMs, hits |-> 0])

\* ToolOrchestrator.createSuccessResult
CreateSuccessResult(data, attempts) ==
  [success |-> TRUE, data |-> data, attempts |-> attempts]

\* ToolOrchestrator.createErrorResult
CreateErrorResult(error, attempts) ==
  [success |-> FALSE, error |-> [code |-> error.code], attempts |-> attempts]

\* Variant that doubles once too often.
RetryDelayDoubling(retryConfig, attempt) ==
  IF retryConfig.exponential
  THEN retryConfig.backoffMs * 2 ^ attempt
  ELSE retryConfig.backoffMs

\* The delay before the attempt after `attempt`.
RetryDelay(retryConfig, attempt) ==
  IF retryConfig.exponential
  THEN retryConfig.backoffMs * 2 ^ (attempt - 1)
  ELSE retryConfig.backoffMs

\* What handler.execute resolves with or throws.
HandlerData == {"d1", "d2"}
\* The data of a handler result without data.
Undefined == "undefined"
Returned(data) == [kind |-> "return", data |-> data]
Threw(error)   == [kind |-> "throw", error |-> error]

\* TeamAnalysisHandler.parseTeamMembers finds no name in the team.
NoTeamMember(input) ==
  HasKey(input, "team_members") /\ ValueOf(input, "team_members").text = ","

\* What the handlers throw: the lookup fails on the external API or throws
\* something that is no Error; the team analysis fails with a plain Error.
HandlerThrows(toolName) ==
  IF toolName = "analyze_pokemon_team"
  THEN {PlainError}
  ELSE {ExternalApiError, ThrownValue}

\* A handler invocation is beforeExecute, execute and afterExecute run in a
\* row: it resolves with the data of execute's result, or throws what the
\* first failing stage throws, or never completes.  The team analysis throws
\* a ValidationError for a team without members before it does anything else.
HandlerOutcomes(toolName, input) ==
  IF toolName = "analyze_pokemon_team" /\ NoTeamMember(input)
  THEN {Threw(ValidationError)}
  ELSE {Returned(d) : d \in HandlerData \cup {Undefined}}
         \cup {Threw(e) : e \in HandlerThrows(toolName)}

\* Inputs the model sends with a call.
InputsFor(toolName) ==
  IF toolName = "get_pokemon_info"
  THEN {<<Field("pokemon", StringValue("pikachu")), Field("lang", StringValue("en"))>>,
        <<Field("lang", StringValue("en")), Field("pokemon", StringValue("pikachu"))>>,
        <<>>}
  ELSE IF toolName = "analyze_pokemon_team"
  THEN {<<Field("team_members", StringValue("pikachu,eevee"))>>,
        <<Field("team_members", StringValue(","))>>,
        <<Field("team_members", NumberValue("25"))>>}
  ELSE {<<>>}

\* Promises.
Pending == [state |-> "pending"]
Settled(outcome) ==
  IF outcome.kind = "return"
  THEN [state |-> "fulfilled", data |-> outcome.data]
  ELSE [state |-> "rejected", error |-> outcome.error]

\* Variant in which the last resolve or reject wins.
PromiseSettleLastWins(promise, outcome) == Settled(outcome)

\* resolve(result.data) and reject(error) of executeWithTimeout: a promise
\* that is settled stays as it is.
PromiseSettle(promise, outcome) ==
  IF promise.state # "pending" THEN promise ELSE Settled(outcome)

\* Variant with one attempt more.
MayRetryInclusive(attempt, maxAttempts) == attempt <= maxAttempts

\* if (attempt < retryConfig.maxAttempts)
MayRetry(attempt, maxAttempts) == attempt < maxAttempts

\* Sum of a per-tool counter over the names that are called.
SumByTool(f) ==
  f["get_pokemon_info"] + f["analyze_pokemon_team"] + f[UnknownTool]

\* The orchestrator at time 0: fresh, or after every tool has used up its
\* rate limit but for `left` requests, all of them refused for their input.
OrchStart(left) ==
  /\ RouteInit
  /\ health = NoCall
  /\ keyPair = NoCall
  /\ UnitOff
  /\ opc = "idle"
  /\ now = 0
  /\ cache = <<>>
  /\ call = NoCall
  /\ last = NoCall
  /\ calls = 0
  /\ passes = 0
  /\ lateRuns = <<>>
  /\ stored = {}
  /\ \E warm \in BOOLEAN :
       LET served == [n \in CalledNames |->
                        IF warm /\ n \in RegisteredNames
                        THEN ToolOf(n).rateLimit.maxRequests - left ELSE 0]
       IN  /\ rateLimits = [n \in {x \in RegisteredNames : served[x] > 0} |->
                              [requests |-> served[n], windowStart |-> 0]]
           /\ metrics = [totalRequests |-> SumByTool(served),
                         successfulRequests |-> 0,
                         errorsByTool |-> served,
                         requestsByTool |-> served]
           /\ tally = [ok |-> 0, failed |-> SumByTool(served)]

OrchInit == OrchStart(1)

\* executeTool returns result for the call c.
Returns(c, result) ==
  /\ last' = [toolName |-> c.toolName, input |-> c.input,
              startedAt |-> c.startedAt, result |-> result,
              invocations |-> c.invocations, waited |-> c.waited,
              lookups |-> c.lookups, errors |-> c.errors,
              admitted |-> c.admitted, fresh |-> c.fresh,
              cacheAt |-> c.cacheAt]
  /\ tally' = IF result.success THEN [tally EXCEPT !.ok = @ + 1]
              ELSE [tally EXCEPT !.failed = @ + 1]
  /\ call' = NoCall
  /\ opc' = "idle"

\* The catch of executeTool.
Catches(c, counted, error) ==
  /\ metrics' = UpdateErrorMetrics(counted, c.toolName)
  /\ Returns(c, CreateErrorResult(FromUnknown(error), 1))

\* Entries of stored that have not outlived their TTL at time t.
Fresh(toolName, input, t) ==
  {w \in stored : /\ w.toolName = toolName
                  /\ w.mapping = AsMapping(input)
                  /\ t - w.at < w.ttlMs}

\* executeTool from its entry to its first suspension on the handler: the
\* request is counted, the tool looked up, the rate limit and the input
\* checked and the cache asked; the awaits on the way do not wait.
ExecuteTool ==
  /\ opc = "idle" /\ calls < MaxCalls
  /\ calls' = calls + 1
  /\ \E toolName \in CalledNames : \E input \in InputsFor(toolName) :
       LET counted == UpdateRequestMetrics(metrics, toolName)
           c0 == [toolName |-> toolName, input |-> input, startedAt |-> now,
                  attempt |-> 0, invocations |-> 0, waited |-> 0, delay |-> 0,
                  lookups |-> 0, errors |-> <<>>, admitted |-> FALSE,
                  fresh |-> Fresh(toolName, input, now), cacheAt |-> cache]
       IN  IF toolName \notin RegisteredNames
           THEN /\ Catches(c0, counted, ToolNotFoundError)
                /\ UNCHANGED <<rateLimits, cache>>
           ELSE
             LET tool  == ToolOf(toolName)
                 limit == CheckRateLimit(rateLimits, toolName, tool.rateLimit, now)
                 c1    == [c0 EXCEPT !.admitted = TRUE]
             IN  IF limit.threw
                 THEN /\ Catches(c0, counted, RateLimitError)
                      /\ rateLimits' = limit.limits
                      /\ UNCHANGED cache
                 ELSE IF ~ValidateInput(tool, input)
                 THEN /\ Catches(c1, counted, ValidationError)
                      /\ rateLimits' = limit.limits
                      /\ UNCHANGED cache
                 ELSE
                   LET cacheKey == GenerateCacheKey(toolName, input)
                       got == CacheGet(cache, cacheKey, now)
                       c2  == [c1 EXCEPT !.lookups = 1]
                   IN  /\ rateLimits' = limit.limits
                       /\ cache' = got.entries
                       /\ metrics' = counted
                       /\ IF got.found
                          THEN Returns(c2, CreateSuccessResult(got.data, 0))
                          ELSE /\ call' = [c2 EXCEPT !.attempt = 1,
                                                     !.invocations = 1]
                               /\ opc' = "attempt"
                               /\ last' = NoCall
                               /\ UNCHANGED tally
  /\ UNCHANGED <<now, passes, lateRuns, stored, routeVars, health, keyPair, unitVars>>

\* executeWithRetries and then executeTool, once the promise of
\* executeWithTimeout has settled as p at time t.
AfterAttempt(p, t) ==
  LET tool == ToolOf(call.toolName) IN
    IF p.state = "fulfilled"
    THEN LET cacheKey == GenerateCacheKey(call.toolName, call.input)
             ttl == CalculateCacheTtl(call.toolName)
         IN  /\ IF p.data # Undefined
                THEN /\ cache' = CacheSet(cache, cacheKey, p.data, ttl, t)
                     /\ stored' = stored \cup
                          {[toolName |-> call.toolName,
                            mapping |-> AsMapping(call.input),
                            data |-> p.data, at |-> t, ttlMs |-> ttl]}
                ELSE UNCHANGED <<cache, stored>>
             /\ metrics' = [metrics EXCEPT !.successfulRequests = @ + 1]
             /\ Returns(call, CreateSuccessResult(p.data, call.attempt))
    ELSE IF MayRetry(call.attempt, tool.retryConfig.maxAttempts)
    THEN /\ call' = [call EXCEPT !.errors = Append(@, p.error),
                                 !.delay = RetryDelay(tool.retryConfig,
                                                      call.attempt)]
         /\ opc' = "backoff"
         /\ UNCHANGED <<cache, stored, metrics, last, tally>>
    ELSE /\ metrics' = UpdateErrorMetrics(metrics, call.toolName)
         /\ Returns([call EXCEPT !.errors = Append(@, p.error)],
                    CreateErrorResult(FromUnknown(p.error), call.attempt))
         /\ UNCHANGED <<cache, stored>>

\* The handler invocation of the attempt completes in time.
HandlerSettles ==
  /\ opc = "attempt"
  /\ \E outcome \in HandlerOutcomes(call.toolName, call.input) :
       AfterAttempt(PromiseSettle(Pending, outcome), now)
  /\ UNCHANGED <<now, rateLimits, calls, passes, lateRuns, routeVars, health,
                 keyPair, unitVars>>

\* The handler invocation is still running when the timer of
\* executeWithTimeout fires.
TimerFires ==
  /\ opc = "attempt" /\ Len(lateRuns) < MaxTimeouts
  /\ UNCHANGED passes
  /\ LET timeoutMs == ToolOf(call.toolName).timeout
         p == PromiseSettle(Pending, Threw(ToolTimeoutError))
     IN  /\ now' = now + timeoutMs
         /\ lateRuns' = Append(lateRuns,
                               [promise |-> p, running |-> TRUE,
                                toolName |-> call.toolName,
                                input |-> call.input,
                                callNo |-> calls,
                                attempt |-> call.attempt])
         /\ AfterAttempt(p, now + timeoutMs)
  /\ UNCHANGED <<rateLimits, calls, routeVars, health, keyPair, unitVars>>

\* The sleep between two attempts ends and the next attempt invokes the
\* handler.
BackoffEnds ==
  /\ opc = "backoff"
  /\ now' = now + call.delay
  /\ call' = [call EXCEPT !.attempt = @ + 1, !.invocations = @ + 1,
                          !.waited = @ + call.delay]
  /\ opc' = "attempt"
  /\ UNCHANGED <<rateLimits, cache, last, tally, calls, passes, lateRuns,
                 stored, metrics, routeVars, health, keyPair, unitVars>>

\* The handler invocation of an attempt that timed out completes: it calls
\* resolve or reject of that attempt's promise.  Only a promise that changes
\* state resumes the code that awaits it.
LateCompletion ==
  /\ \E i \in 1..Len(lateRuns) :
       /\ lateRuns[i].running
       /\ \E outcome \in HandlerOutcomes(lateRuns[i].toolName,
                                          lateRuns[i].input) :
            LET run == lateRuns[i]
                p   == PromiseSettle(run.promise, outcome)
            IN  /\ lateRuns' = [lateRuns EXCEPT ![i].promise = p,
                                                ![i].running = FALSE,
                                                ![i].callNo = 0,
                                                ![i].attempt = 0]
                /\ IF p = run.promise
                   THEN UNCHANGED <<cache, metrics>>
                   ELSE /\ cache' =
                             IF p.state = "fulfilled" /\ p.data # Undefined
                             THEN CacheSet(cache,
                                           GenerateCacheKey(run.toolName,
                                                            run.input),
                                           p.data,
                                           CalculateCacheTtl(run.toolName),
                                           now)
                             ELSE cache
                        /\ metrics' =
                             IF p.state = "fulfilled"
                             THEN [metrics EXCEPT !.successfulRequests = @ + 1]
                             ELSE UpdateErrorMetrics(metrics, run.toolName)
  /\ UNCHANGED <<opc, now, rateLimits, call, last, tally, calls, passes,
                 stored, routeVars, health, keyPair, unitVars>>

\* Time passes between two calls, and the cleanup timer fires on its way.
\* (The entries live for hours and the attempts and backoffs of a call take
\* less than a minute, so that a firing of the timer during a call finds
\* nothing to remove.)
Pass ==
  /\ opc = "idle" /\ passes < MaxPasses
  /\ calls \in 1..(MaxCalls - 1)
  /\ passes' = passes + 1
  /\ \E d \in PassDurations :
       /\ now' = now + d
       /\ cache' = Cleanup(cache, LastCleanupTick(now + d))
  /\ UNCHANGED <<opc, rateLimits, call, last, tally, calls, lateRuns,
                 stored, metrics, routeVars, health, keyPair, unitVars>>

\* Calls made one after the other, with idle periods, to handlers that
\* complete in time.
OrchNext ==
  \/ ExecuteTool
  \/ HandlerSettles
  \/ BackoffEnds
  \/ Pass

OrchSpec == OrchInit /\ [][OrchNext]_vars

\* Calls to handlers that may also fail to complete in time.
TimedInit == OrchStart(0)

TimedExecuteTool ==
  /\ calls < MaxTimedCalls
  /\ ExecuteTool

TimedNext ==
  \/ TimedExecuteTool
  \/ HandlerSettles
  \/ TimerFires
  \/ BackoffEnds
  \/ LateCompletion

TimedSpec == TimedInit /\ [][TimedNext]_vars

\* ------------------------------------------------- generateCacheKey alone
\* Fields the two inputs are built from.
KeyFieldPool ==
  {Field("pokemon", StringValue("pikachu")), Field("pokemon", NumberValue("25")),
   Field("lang", StringValue("en")),
   Field("id", NumberValue("7")), Field("id", StringValue("7")),
   Field("filter", ObjectOf(<<Field("type", StringValue("fire"))>>)),
   Field("filter", ObjectOf(<<Field("type", StringValue("water"))>>))}

\* Input objects over the pool: no key twice, any insertion order.
KeyInputs ==
  {inp \in UNION {[1..n -> KeyFieldPool] : n \in 0..3} :
     \A i, j \in 1..Len(inp) : inp[i].key = inp[j].key => i = j}

KeyInit ==
  /\ RouteInit
  /\ metrics = [totalRequests |-> 0, successfulRequests |-> 0,
                errorsByTool |-> [n \in ToolNames |-> 0],
                requestsByTool |-> [n \in ToolNames |-> 0]]
  /\ OrchOff
  /\ health = NoCall
  /\ UnitOff
  /\ \E t \in CalledNames, a \in KeyInputs, b \in KeyInputs :
       keyPair = [tool |-> t, a |-> a, b |-> b, computed |-> FALSE]

\* generateCacheKey is called on both inputs.
GenerateKeys ==
  /\ keyPair # NoCall /\ ~keyPair.computed
  /\ keyPair' = [tool |-> keyPair.tool, a |-> keyPair.a, b |-> keyPair.b,
                 computed |-> TRUE,
                 strA |-> StringifyWithReplacer(
                            keyPair.a, ArraySort(ObjectKeys(keyPair.a))),
                 strB |-> StringifyWithReplacer(
                            keyPair.b, ArraySort(ObjectKeys(keyPair.b))),
                 keyA |-> GenerateCacheKey(keyPair.tool, keyPair.a),
                 keyB |-> GenerateCacheKey(keyPair.tool, keyPair.b)]
  /\ UNCHANGED <<routeVars, metrics, orchVars, health, unitVars>>

KeySpec == KeyInit /\ [][GenerateKeys]_vars

\* ------------------------------------------------------ healthCheck alone
\* ToolOrchestrator.getMetrics: the success rate is a fraction <<n, d>>.
GetMetrics(m) ==
  [totalRequests |-> m.totalRequests,
   successRate |-> IF m.totalRequests > 0
                   THEN <<m.successfulRequests, m.totalRequests>>
                   ELSE <<0, 1>>]

\* rate > percent / 100
RateAbove(rate, percent) == rate[1] * 100 > percent * rate[2]

\* Variant with inclusive thresholds.
HealthCheckInclusive(m) ==
  LET rate == GetMetrics(m).successRate
  IN  IF rate[1] * 100 >= 95 * rate[2] THEN "healthy"
      ELSE IF rate[1] * 100 >= 80 * rate[2] THEN "degraded"
      ELSE "unhealthy"

\* ToolOrchestrator.healthCheck: the status.
HealthCheck(m) ==
  LET rate == GetMetrics(m).successRate
  IN  IF RateAbove(rate, 95) THEN "healthy"
      ELSE IF RateAbove(rate, 80) THEN "degraded"
      ELSE "unhealthy"

\* The counters after some calls: s successes among t requests, the others
\* failed lookups.
HealthInit ==
  /\ RouteInit
  /\ OrchOff
  /\ keyPair = NoCall
  /\ health = NoCall
  /\ UnitOff
  /\ \E t \in 0..MaxServed : \E s \in 0..t :
       metrics = [totalRequests |-> t, successfulRequests |-> s,
                  errorsByTool |-> [n \in ToolNames |-> t - s],
                  requestsByTool |-> [n \in ToolNames |-> t]]

\* healthCheck() is called.
RunHealthCheck ==
  /\ health = NoCall
  /\ health' = [status |-> HealthCheck(metrics)]
  /\ UNCHANGED <<routeVars, metrics, orchVars, keyPair, unitVars>>

HealthSpec == HealthInit /\ [][RunHealthCheck]_vars

\* --------------------------------------------------- IntelligentCache alone
\* Keys of the cache, strings given by their code units: one more than it
\* holds, the empty string among them.
EmptyKey == <<>>
CacheKeys == {EmptyKey} \cup {<<k>> : k \in 1..CacheMaxSize}
\* The ttlMs of a set that is called without one.
NoTtl == 0 - 1
\* A TTL given to set, shorter than the default one.
ShortTtlMs == 1000
\* What set is called with: data and the optional ttlMs.
SetArguments == {[data |-> "d1", ttlMs |-> ShortTtlMs],
                 [data |-> "d2", ttlMs |-> NoTtl]}
\* Time that passes between two operations.
TickDurations == {ShortTtlMs, ShortTtlMs + 1}

\* new IntelligentCache(config) at time 0.
NewCache ==
  [entries |-> <<>>, accessOrder |-> <<>>, accessCounter |-> 0,
   metrics |-> [hits |-> 0, misses |-> 0, evictions |-> 0],
   now |-> 0, ops |-> 0, returned |-> NoCall]

\* Variant of get that leaves the recency of the key alone.
LruGetNoTouch(c, key) ==
  LET got == CacheGet(c.entries, key, c.now) IN
    IF got.found
    THEN [c EXCEPT !.entries = got.entries,
                   !.metrics.hits = @ + 1,
                   !.returned = [op |-> "get", key |-> key, value |-> got.data]]
    ELSE [c EXCEPT !.entries = got.entries,
                   !.accessOrder = MapDelete(@, key),
                   !.metrics.misses = @ + 1,
                   !.returned = [op |-> "get", key |-> key, value |-> "null"]]

\* IntelligentCache.get
LruGet(c, key) ==
  LET got == CacheGet(c.entries, key, c.now) IN
    IF got.found
    THEN [c EXCEPT !.entries = got.entries,
                   !.accessCounter = @ + 1,
                   !.accessOrder = MapSet(@, key, c.accessCounter + 1),
                   !.metrics.hits = @ + 1,
                   !.returned = [op |-> "get", key |-> key, value |-> got.data]]
    ELSE [c EXCEPT !.entries = got.entries,
                   !.accessOrder = MapDelete(@, key),
                   !.metrics.misses = @ + 1,
                   !.returned = [op |-> "get", key |-> key, value |-> "null"]]

\* IntelligentCache.evictLeastRecentlyUsed; `if (lruKey)` is false of null
\* and of the empty string.
EvictLeastRecentlyUsed(c) ==
  IF DOMAIN c.accessOrder = {} THEN c
  ELSE LET lruKey == CHOOSE k \in DOMAIN c.accessOrder :
                       \A x \in DOMAIN c.accessOrder :
                         c.accessOrder[k] <= c.accessOrder[x]
       IN  IF lruKey = EmptyKey THEN c
           ELSE [c EXCEPT !.entries = MapDelete(@, lruKey),
                          !.accessOrder = MapDelete(@, lruKey),
                          !.metrics.evictions = @ + 1]

\* IntelligentCache.set
LruSet(c, key, data, ttlMs) ==
  LET effectiveTtl == IF ttlMs = NoTtl THEN DefaultTtlMs ELSE ttlMs
      room == IF Cardinality(DOMAIN c.entries) >= CacheMaxSize
                 /\ key \notin DOMAIN c.entries
              THEN EvictLeastRecentlyUsed(c) ELSE c
  IN  [room EXCEPT !.entries = CacheSet(@, key, data, effectiveTtl, c.now),
                   !.accessCounter = @ + 1,
                   !.accessOrder = MapSet(@, key, c.accessCounter + 1),
                   !.returned = [op |-> "set", key |-> key]]

\* IntelligentCache.delete
LruDelete(c, key) ==
  [c EXCEPT !.entries = MapDelete(@, key),
            !.accessOrder = MapDelete(@, key),
            !.returned = [op |-> "delete", key |-> key,
                          deleted |-> key \in DOMAIN c.entries]]

\* IntelligentCache.clear
LruClear(c) ==
  [c EXCEPT !.entries = <<>>, !.accessOrder = <<>>, !.accessCounter = 0,
            !.returned = [op |-> "clear"]]

\* IntelligentCache.warmCache: set for one entry after the other.
RECURSIVE LruWarmCache(_, _)
LruWarmCache(c, entries) ==
  IF entries = <<>> THEN [c EXCEPT !.returned = [op |-> "warmCache"]]
  ELSE LruWarmCache(LruSet(c, Head(entries).key, Head(entries).data,
                           Head(entries).ttlMs),
                    Tail(entries))

\* IntelligentCache.cleanup with the recency map and the number returned.
LruCleanup(c) ==
  LET kept == Cleanup(c.entries, c.now)
      gone == DOMAIN c.entries \ DOMAIN kept
  IN  [c EXCEPT !.entries = kept,
                !.accessOrder = [k \in DOMAIN @ \ gone |-> @[k]],
                !.returned = [op |-> "cleanup", cleaned |-> Cardinality(gone)]]

CacheInit ==
  /\ RouteInit
  /\ metrics = [totalRequests |-> 0, successfulRequests |-> 0,
                errorsByTool |-> [n \in ToolNames |-> 0],
                requestsByTool |-> [n \in ToolNames |-> 0]]
  /\ OrchOff
  /\ health = NoCall
  /\ keyPair = NoCall
  /\ registry = NoCall /\ check = NoCall /\ procs = NoCall /\ retry = NoCall
  /\ random = NoCall
  /\ lru = NewCache

CacheFrame == UNCHANGED <<routeVars, metrics, orchVars, health, keyPair,
                          registry, check, procs, retry, random>>

\* The cache after an operation.
Counted(c) == [c EXCEPT !.ops = @ + 1]

CacheGets ==
  /\ lru.ops < MaxCacheOps
  /\ \E key \in CacheKeys : lru' = Counted(LruGet(lru, key))
  /\ CacheFrame

CacheSets ==
  /\ lru.ops < MaxCacheOps
  /\ \E key \in CacheKeys : \E a \in SetArguments :
       lru' = Counted(LruSet(lru, key, a.data, a.ttlMs))
  /\ CacheFrame

CacheCleansUp ==
  /\ lru.ops < MaxCacheOps
  /\ lru' = Counted(LruCleanup(lru))
  /\ CacheFrame

CacheDeletes ==
  /\ lru.ops < MaxCacheOps
  /\ \E key \in CacheKeys : lru' = Counted(LruDelete(lru, key))
  /\ CacheFrame

CacheClears ==
  /\ lru.ops < MaxCacheOps
  /\ lru' = Counted(LruClear(lru))
  /\ CacheFrame

\* warmCache with entries for two keys.
CacheWarms ==
  /\ lru.ops < MaxCacheOps
  /\ \E k1 \in CacheKeys : \E k2 \in CacheKeys \ {k1} :
       lru' = Counted(LruWarmCache(lru,
                 <<[key |-> k1, data |-> "d1", ttlMs |-> NoTtl],
                   [key |-> k2, data |-> "d2", ttlMs |-> ShortTtlMs]>>))
  /\ CacheFrame

\* Time passes.
CacheTick ==
  /\ lru.ops < MaxCacheOps
  /\ \E d \in TickDurations :
       lru' = Counted([lru EXCEPT !.now = @ + d, !.returned = NoCall])
  /\ CacheFrame

CacheNext ==
  \/ CacheGets
  \/ CacheSets
  \/ CacheCleansUp
  \/ CacheDeletes
  \/ CacheClears
  \/ CacheWarms
  \/ CacheTick

CacheSpec == CacheInit /\ [][CacheNext]_vars

\* ------------------------------------------------------ validateInput alone
\* Types a schema declares for a field: the five that isValidType knows, one
\* it does not know, "" for a property without type, "none" for a field the
\* schema does not mention.
DeclaredTypes ==
  {"string", "number", "boolean", "array", "object", "integer", "", "none"}
\* Stands for a field that is not there.
Absent == [type |-> "absent", text |-> ""]
\* Values of a field of a parsed JSON input.
JsonValues ==
  {StringValue("pikachu"), NumberValue("25"), BooleanValue("true"),
   ArrayValue("[]"), ObjectValue("{}"), NullValue}
\* The fields of an input object that are there.
InputOf(a, b, c) ==
  (IF a = Absent THEN <<>> ELSE <<Field("a", a)>>)
    \o (IF b = Absent THEN <<>> ELSE <<Field("b", b)>>)
    \o (IF c = Absent THEN <<>> ELSE <<Field("c", c)>>)
\* The properties of an input schema.
PropertiesOf(ta, tb) ==
  (IF ta = "none" THEN {} ELSE {<<"a", ta>>})
    \cup (IF tb = "none" THEN {} ELSE {<<"b", tb>>})

ValidateInit ==
  /\ RouteInit
  /\ metrics = [totalRequests |-> 0, successfulRequests |-> 0,
                errorsByTool |-> [n \in ToolNames |-> 0],
                requestsByTool |-> [n \in ToolNames |-> 0]]
  /\ OrchOff
  /\ health = NoCall
  /\ keyPair = NoCall
  /\ lru = NoCall /\ registry = NoCall /\ procs = NoCall /\ retry = NoCall
  /\ random = NoCall
  /\ \E required \in {<<>>, <<"a">>, <<"a", "b">>} :
     \E ta \in DeclaredTypes : \E tb \in {"none", "string"} :
     \E a \in JsonValues \cup {Absent} :
     \E b \in {Absent, NumberValue("7")} :
     \E c \in {Absent, StringValue("en")} :
       check = [tool |-> [required |-> required,
                          properties |-> PropertiesOf(ta, tb)],
                input |-> InputOf(a, b, c),
                done |-> FALSE]

\* validateInput is called on the input; executeTool turns what it throws
\* into the code of the result.
RunValidateInput ==
  /\ check # NoCall /\ ~check.done
  /\ check' = [tool |-> check.tool, input |-> check.input, done |-> TRUE,
               code |-> IF ValidateInput(check.tool, check.input)
                        THEN "none"
                        ELSE FromUnknown(ValidationError).code]
  /\ UNCHANGED <<routeVars, metrics, orchVars, health, keyPair, lru,
                 registry, procs, retry, random>>

ValidateSpec == ValidateInit /\ [][RunValidateInput]_vars

\* ------------------------------------------------------- registerTool alone
\* Definitions handed to registerTool: the name, the version and the input
\* schema are what validateToolDefinition looks at.
DefinitionNames == {"", "get_pokemon_info", UnknownTool}
DefinitionVersions == {"", "1.0.0", "2.0.0"}
DefinitionSchemas ==
  {UndefinedValue, NullValue, StringValue("object"), ObjectValue("{}")}
Definitions ==
  [name : DefinitionNames, version : DefinitionVersions,
   inputSchema : DefinitionSchemas]
Handlers == {"h1", "h2"}

\* Variant that does not look at the version.
ValidateToolDefinitionNoVersion(definition) ==
  /\ definition.name # ""
  /\ Truthy(definition.inputSchema)
  /\ TypeOf(definition.inputSchema) = "object"

\* ToolOrchestrator.validateToolDefinition: TRUE unless it throws the
\* ValidationError (name and version are strings).
ValidateToolDefinition(definition) ==
  /\ definition.name # ""
  /\ definition.version # ""
  /\ Truthy(definition.inputSchema)
  /\ TypeOf(definition.inputSchema) = "object"

\* ToolOrchestrator.registerTool
RegisterTool(r, definition, handler) ==
  IF ~ValidateToolDefinition(definition)
  THEN [r EXCEPT !.returned = [definition |-> definition,
                               handler |-> handler,
                               threw |-> ValidationError.kind,
                               code |-> ValidationError.code]]
  ELSE [r EXCEPT !.tools = MapSet(@, definition.name, definition),
                 !.handlers = MapSet(@, definition.name, handler),
                 !.returned = [definition |-> definition,
                               handler |-> handler,
                               threw |-> "nothing", code |-> "none"]]

RegisterInit ==
  /\ RouteInit
  /\ metrics = [totalRequests |-> 0, successfulRequests |-> 0,
                errorsByTool |-> [n \in ToolNames |-> 0],
                requestsByTool |-> [n \in ToolNames |-> 0]]
  /\ OrchOff
  /\ health = NoCall
  /\ keyPair = NoCall
  /\ lru = NoCall /\ check = NoCall /\ procs = NoCall /\ retry = NoCall
  /\ random = NoCall
  /\ registry = [tools |-> <<>>, handlers |-> <<>>, count |-> 0,
                 returned |-> NoCall]

\* registerTool is called.
Registers ==
  /\ registry # NoCall /\ registry.count < MaxRegistrations
  /\ \E definition \in Definitions : \E handler \in Handlers :
       registry' = [RegisterTool(registry, definition, handler)
                      EXCEPT !.count = @ + 1]
  /\ UNCHANGED <<routeVars, metrics, orchVars, health, keyPair, lru, check,
                 procs, retry, random>>

RegisterSpec == RegisterInit /\ [][Registers]_vars

\* ------------------------------------------- executeWithRetries alone
\* The orchestrator's configuration in setup.ts.
GlobalTimeout == 30000
RetryDefaults == [maxAttempts |-> 3, backoffMs |-> 1000, exponential |-> TRUE]

\* Retry policies and timeouts a tool definition may carry; a timeout of 0
\* is a timeout, not a missing one.
RetryPolicies ==
  [maxAttempts : 1..MaxPolicyAttempts, backoffMs : {500, 2000},
   exponential : BOOLEAN]
ToolTimeouts == {0, 15000}
\* Tool definitions with and without the optional retryConfig and timeout.
RetryTools ==
  {[version |-> "1.0.0"]}
    \cup {[version |-> "1.0.0", timeout |-> t] : t \in ToolTimeouts}
    \cup {[version |-> "1.0.0", retryConfig |-> p] : p \in RetryPolicies}
    \cup {[version |-> "1.0.0", retryConfig |-> p, timeout |-> t] :
            p \in RetryPolicies, t \in ToolTimeouts}

\* What a handler may resolve with: a ToolExecutionResult with its own
\* success flag, with or without data.
HandlerResults ==
  {[success |-> ok, data |-> d] : ok \in BOOLEAN, d \in {"d1", Undefined}}

\* tool.retryConfig ?? this.config.retryDefaults
RetryConfigOf(tool) ==
  IF "retryConfig" \in DOMAIN tool THEN tool.retryConfig ELSE RetryDefaults
\* tool.timeout ?? this.config.globalTimeout
TimeoutOf(tool) ==
  IF "timeout" \in DOMAIN tool THEN tool.timeout ELSE GlobalTimeout

\* executeWithRetries has entered the loop and executeWithTimeout has armed
\* the timer of the first attempt.
RetryInit ==
  /\ RouteInit
  /\ metrics = [totalRequests |-> 0, successfulRequests |-> 0,
                errorsByTool |-> [n \in ToolNames |-> 0],
                requestsByTool |-> [n \in ToolNames |-> 0]]
  /\ OrchOff
  /\ health = NoCall
  /\ keyPair = NoCall
  /\ lru = NoCall /\ check = NoCall /\ procs = NoCall /\ registry = NoCall
  /\ random = NoCall
  /\ \E tool \in RetryTools :
       retry = [tool |-> tool, state |-> "running", attempt |-> 1,
                armed |-> <<TimeoutOf(tool)>>, slept |-> <<>>,
                errors |-> <<>>, success |-> FALSE, attempts |-> 0,
                reported |-> "nothing", data |-> Undefined]

RetryFrame == UNCHANGED <<routeVars, metrics, orchVars, health, keyPair, lru,
                          check, procs, registry, random>>

\* The catch block of the loop, then the end of the loop when no attempt
\* is left.
RetryCatch(error) ==
  LET retryConfig == RetryConfigOf(retry.tool) IN
    IF MayRetry(retry.attempt, retryConfig.maxAttempts)
    THEN [retry EXCEPT !.state = "sleeping",
                       !.errors = Append(@, error),
                       !.slept = Append(@, RetryDelay(retryConfig,
                                                      retry.attempt))]
    ELSE [retry EXCEPT !.state = "done",
                       !.errors = Append(@, error),
                       !.attempts = retry.attempt]

\* The handler resolves before the timer fires: executeWithTimeout
\* resolves with result.data and executeWithRetries returns a success
\* with it.
RetryAttemptResolves ==
  /\ retry # NoCall /\ retry.state = "running"
  /\ \E result \in HandlerResults :
       retry' = [retry EXCEPT !.state = "done", !.success = TRUE,
                              !.attempts = retry.attempt,
                              !.reported = IF result.success THEN "success"
                                           ELSE "failure",
                              !.data = result.data]
  /\ RetryFrame

\* The handler throws before the timer fires.
RetryAttemptRejects ==
  /\ retry # NoCall /\ retry.state = "running"
  /\ retry' = RetryCatch("thrown")
  /\ RetryFrame

\* The timer fires first.
RetryAttemptTimesOut ==
  /\ retry # NoCall /\ retry.state = "running"
  /\ retry' = RetryCatch("TOOL_TIMEOUT")
  /\ RetryFrame

\* The backoff timer fires and the next attempt starts.
RetrySleepEnds ==
  /\ retry # NoCall /\ retry.state = "sleeping"
  /\ retry' = [retry EXCEPT !.state = "running", !.attempt = @ + 1,
                            !.armed = Append(@, TimeoutOf(retry.tool))]
  /\ RetryFrame

RetryNext ==
  \/ RetryAttemptResolves
  \/ RetryAttemptRejects
  \/ RetryAttemptTimesOut
  \/ RetrySleepEnds

RetrySpec == RetryInit /\ [][RetryNext]_vars

\* The runtime fires the timers of setTimeout: that of executeWithTimeout
\* and that of the backoff.  Nothing makes a handler or a hook settle.
RetryLiveSpec ==
  /\ RetrySpec
  /\ WF_vars(RetryAttemptTimesOut)
  /\ WF_vars(RetrySleepEnds)

\* -------------------------------------------- overlapping executeTool
\* The turns whose executeTool calls overlap; each makes one call, and
\* they are numbered in the order in which they call.
ConcIds == 1..MaxConcurrent

\* `req_${Date.now()}`, the request identifier the driver hands to
\* executeTool, which keeps it: context?.requestId ?? randomUUID().
DriverRequestId(t) == [prefix |-> "req_", ms |-> t]
NoRequestId == [prefix |-> "", ms |-> 0]

\* A turn that has not called executeTool yet.
IdleProc ==
  [pc |-> "idle", toolName |-> "", input |-> <<>>, invalid |-> FALSE,
   found |-> FALSE, data |-> Undefined, result |-> "none",
   requestId |-> NoRequestId]

\* The call of turn p has returned; its input and data are dropped.
ConcDone(p, code) ==
  [procs EXCEPT !.calls[p] = [IdleProc EXCEPT
                                !.pc = "done",
                                !.toolName = procs.calls[p].toolName,
                                !.requestId = procs.calls[p].requestId,
                                !.result = code]]

\* The orchestrator at time 0, fresh or with every window one request
\* short of its limit, and no call under way.
ConcInit ==
  /\ RouteInit
  /\ health = NoCall
  /\ keyPair = NoCall
  /\ lru = NoCall /\ check = NoCall /\ registry = NoCall /\ retry = NoCall
  /\ random = NoCall
  /\ opc = "off"
  /\ now = 0
  /\ cache = <<>>
  /\ call = NoCall
  /\ last = NoCall
  /\ calls = 0
  /\ passes = 0
  /\ lateRuns = <<>>
  /\ stored = {}
  /\ \E warm \in BOOLEAN :
       LET served == [n \in CalledNames |->
                        IF warm /\ n \in RegisteredNames
                        THEN ToolOf(n).rateLimit.maxRequests - 1 ELSE 0]
       IN  /\ rateLimits = [n \in {x \in RegisteredNames : served[x] > 0} |->
                              [requests |-> served[n], windowStart |-> 0]]
           /\ metrics = [totalRequests |-> SumByTool(served),
                         successfulRequests |-> 0,
                         errorsByTool |-> served,
                         requestsByTool |-> served]
           /\ tally = [ok |-> 0, failed |-> SumByTool(served)]
           /\ procs = [calls |-> [p \in ConcIds |-> IdleProc],
                       started |-> served, before |-> served,
                       admitted |-> <<>>]

ConcFrame == UNCHANGED <<routeVars, opc, call, last, tally, calls, lateRuns,
                         stored, health, keyPair, lru, check, registry, retry,
                         random>>

\* executeTool from its entry to its first await: the request is counted,
\* the tool looked up, the rate limit checked and validateInput run; what
\* throws before validateInput is caught at once, what validateInput
\* throws rejects the promise the call awaits.
ConcStarts ==
  /\ procs # NoCall
  /\ \E p \in ConcIds : \E toolName \in CalledNames :
     \E input \in InputsFor(toolName) :
       LET counted == UpdateRequestMetrics(metrics, toolName)
           begun == [procs EXCEPT
                       !.started[toolName] = @ + 1,
                       !.calls[p] = [IdleProc EXCEPT
                                       !.toolName = toolName,
                                       !.input = input,
                                       !.requestId = DriverRequestId(now)]]
       IN  /\ procs.calls[p].pc = "idle"
           /\ \A q \in 1..(p - 1) : procs.calls[q].pc # "idle"
           /\ IF toolName \notin RegisteredNames
              THEN /\ metrics' = UpdateErrorMetrics(counted, toolName)
                   /\ procs' = [begun EXCEPT
                                  !.calls[p].pc = "done",
                                  !.calls[p].input = <<>>,
                                  !.calls[p].result = "TOOL_NOT_FOUND"]
                   /\ UNCHANGED rateLimits
              ELSE
                LET tool == ToolOf(toolName)
                    limit == CheckRateLimit(rateLimits, toolName,
                                            tool.rateLimit, now)
                IN  /\ rateLimits' = limit.limits
                    /\ IF limit.threw
                       THEN /\ metrics' = UpdateErrorMetrics(counted, toolName)
                            /\ procs' = [begun EXCEPT
                                 !.calls[p].pc = "done",
                                 !.calls[p].input = <<>>,
                                 !.calls[p].result = "RATE_LIMIT_EXCEEDED"]
                       ELSE /\ metrics' = counted
                            /\ procs' = [begun EXCEPT
                                 !.calls[p].pc = "validated",
                                 !.calls[p].invalid =
                                    ~ValidateInput(tool, input),
                                 !.admitted = Append(@,
                                    [toolName |-> toolName,
                                     windowStart |->
                                       limit.limits[toolName].windowStart])]
  /\ UNCHANGED <<now, cache, passes>>
  /\ ConcFrame

\* The await of validateInput resumes: the rejection is caught, or the
\* key is generated and cache.get run up to the await of its result.
ConcAfterValidate ==
  /\ procs # NoCall
  /\ \E p \in ConcIds :
       LET c == procs.calls[p] IN
         /\ c.pc = "validated"
         /\ IF c.invalid
            THEN /\ metrics' = UpdateErrorMetrics(metrics, c.toolName)
                 /\ procs' = ConcDone(p, "INVALID_INPUT")
                 /\ UNCHANGED cache
            ELSE LET got == CacheGet(cache,
                                     GenerateCacheKey(c.toolName, c.input),
                                     now)
                 IN  /\ cache' = got.entries
                     /\ procs' = [procs EXCEPT
                                    !.calls[p].pc = "lookedUp",
                                    !.calls[p].found = got.found,
                                    !.calls[p].data =
                                       IF got.found THEN got.data
                                       ELSE Undefined]
                     /\ UNCHANGED metrics
  /\ UNCHANGED <<now, rateLimits, passes>>
  /\ ConcFrame

\* The await of cache.get resumes: a hit is returned, a miss enters
\* executeWithRetries.
ConcAfterGet ==
  /\ procs # NoCall
  /\ \E p \in ConcIds :
       /\ procs.calls[p].pc = "lookedUp"
       /\ procs' = IF procs.calls[p].found
                   THEN ConcDone(p, "cached")
                   ELSE [procs EXCEPT !.calls[p].pc = "running"]
  /\ UNCHANGED <<now, metrics, rateLimits, cache, passes>>
  /\ ConcFrame

\* executeWithRetries returns, with the data of an attempt or with the
\* error of the last one: data is stored by cache.set up to the await of
\* the call, a result without data and a failure are counted at once.
ConcRetriesEnd ==
  /\ procs # NoCall
  /\ \E p \in ConcIds :
       LET c == procs.calls[p] IN
         /\ c.pc = "running"
         /\ \E outcome \in HandlerOutcomes(c.toolName, c.input) :
              IF outcome.kind = "return"
              THEN IF outcome.data # Undefined
                   THEN /\ cache' = CacheSet(cache,
                                       GenerateCacheKey(c.toolName, c.input),
                                       outcome.data,
                                       CalculateCacheTtl(c.toolName), now)
                        /\ procs' = [procs EXCEPT
                                       !.calls[p].pc = "storing",
                                       !.calls[p].data = outcome.data]
                        /\ UNCHANGED metrics
                   ELSE /\ metrics' = [metrics EXCEPT
                                         !.successfulRequests = @ + 1]
                        /\ procs' = ConcDone(p, "ok")
                        /\ UNCHANGED cache
              ELSE /\ metrics' = UpdateErrorMetrics(metrics, c.toolName)
                   /\ procs' = ConcDone(p, FromUnknown(outcome.error).code)
                   /\ UNCHANGED cache
  /\ UNCHANGED <<now, rateLimits, passes>>
  /\ ConcFrame

\* The await of cache.set resumes and the success is counted.
ConcAfterSet ==
  /\ procs # NoCall
  /\ \E p \in ConcIds :
       /\ procs.calls[p].pc = "storing"
       /\ procs' = ConcDone(p, "ok")
  /\ metrics' = [metrics EXCEPT !.successfulRequests = @ + 1]
  /\ UNCHANGED <<now, rateLimits, cache, passes>>
  /\ ConcFrame

\* Time passes up to the next run of the cleanup timer: timers fire once
\* no call waits for a promise that is already settled, which is every
\* await of executeTool but that of executeWithRetries.
ConcPass ==
  /\ procs # NoCall /\ passes < MaxPasses
  /\ \A p \in ConcIds : procs.calls[p].pc \in {"idle", "running", "done"}
  /\ \E p \in ConcIds : procs.calls[p].pc # "idle"
  /\ passes' = passes + 1
  /\ now' = now + CleanupIntervalMs
  /\ cache' = Cleanup(cache, now + CleanupIntervalMs)
  /\ UNCHANGED <<procs, metrics, rateLimits>>
  /\ ConcFrame

ConcNext ==
  \/ ConcStarts
  \/ ConcAfterValidate
  \/ ConcAfterGet
  \/ ConcRetriesEnd
  \/ ConcAfterSet
  \/ ConcPass

ConcSpec == ConcInit /\ [][ConcNext]_vars

\* ------------------------------------------------- get_random_pokemon
\* TOOL_DEFINITIONS of setup.ts: the random lookup, which takes no input.
RandomPokemonTool ==
  [name |-> "get_random_pokemon",
   category |-> "pokemon",
   required |-> <<>>,
   properties |-> {},
   rateLimit |-> [maxRequests |-> 50, windowMs |-> 60000],
   timeout |-> 15000,
   retryConfig |-> [maxAttempts |-> 3, backoffMs |-> 1000,
                    exponential |-> TRUE]]

\* What RandomPokemonHandler ends with: one of the Pokemon that
\* getRandomPokemon draws, or the ExternalApiError of a failed fetch on
\* every attempt.
RandomOutcomes ==
  {Returned(d) : d \in {"bulbasaur", "mew", "pikachu"}} \cup {Threw(ExternalApiError)}

\* The orchestrator at time 0 with nothing cached.
RandomInit ==
  /\ RouteInit
  /\ metrics = [totalRequests |-> 0, successfulRequests |-> 0,
                errorsByTool |-> [n \in ToolNames |-> 0],
                requestsByTool |-> [n \in ToolNames |-> 0]]
  /\ OrchOff
  /\ health = NoCall
  /\ keyPair = NoCall
  /\ lru = NoCall /\ check = NoCall /\ procs = NoCall /\ registry = NoCall
  /\ retry = NoCall
  /\ random = [now |-> 0, cache |-> <<>>, rateLimits |-> <<>>, calls |-> 0,
               passes |-> 0, invocations |-> 0,
               returned |-> [success |-> FALSE, data |-> Undefined,
                             code |-> "none", invoked |-> FALSE]]

RandomFrame == UNCHANGED <<routeVars, metrics, orchVars, health, keyPair, lru,
                           check, procs, registry, retry>>

\* executeTool('get_random_pokemon', {}) from its entry to its return.
RandomExecute ==
  /\ random.calls < MaxRandomCalls
  /\ LET tool == RandomPokemonTool
         input == <<>>
         limit == CheckRateLimit(random.rateLimits, tool.name, tool.rateLimit,
                                 random.now)
         cacheKey == GenerateCacheKey(tool.name, input)
         got == CacheGet(random.cache, cacheKey, random.now)
         begun == [random EXCEPT !.calls = @ + 1, !.rateLimits = limit.limits]
     IN  IF limit.threw
         THEN random' = [begun EXCEPT
                 !.returned = [success |-> FALSE, data |-> Undefined,
                               code |-> RateLimitError.code,
                               invoked |-> FALSE]]
         ELSE IF ~ValidateInput(tool, input)
         THEN random' = [begun EXCEPT
                 !.returned = [success |-> FALSE, data |-> Undefined,
                               code |-> ValidationError.code,
                               invoked |-> FALSE]]
         ELSE IF got.found
         THEN random' = [begun EXCEPT
                 !.cache = got.entries,
                 !.returned = [success |-> TRUE, data |-> got.data,
                               code |-> "none", invoked |-> FALSE]]
         ELSE \E outcome \in RandomOutcomes :
                random' =
                  IF outcome.kind = "return"
                  THEN [begun EXCEPT
                          !.cache = CacheSet(got.entries, cacheKey,
                                             outcome.data,
                                             CalculateCacheTtl(tool.name),
                                             random.now),
                          !.invocations = @ + 1,
                          !.returned = [success |-> TRUE,
                                        data |-> outcome.data,
                                        code |-> "none", invoked |-> TRUE]]
                  ELSE [begun EXCEPT
                          !.cache = got.entries,
                          !.invocations = @ + 1,
                          !.returned =
                            [success |-> FALSE, data |-> Undefined,
                             code |-> FromUnknown(outcome.error).code,
                             invoked |-> TRUE]]
  /\ RandomFrame

\* Time passes between two calls, and the cleanup timer runs.
RandomPass ==
  /\ random.passes < MaxPasses
  /\ \E d \in PassDurations :
       random' = [random EXCEPT
                    !.passes = @ + 1,
                    !.now = @ + d,
                    !.cache = Cleanup(@, LastCleanupTick(random.now + d))]
  /\ RandomFrame

RandomNext == RandomExecute \/ RandomPass

RandomSpec == RandomInit /\ [][RandomNext]_vars

\* ------------------------------------------------------------ properties
EventsOfType(o, t) == SelectSeq(o, LAMBDA ev : ev.type = t)
ToolUseBlocks(content) == SelectSeq(content, LAMBDA b : b.type = "tool_use")
TextContents(o) ==
  LET evs == EventsOfType(o, "text")
  IN  [i \in 1..Len(evs) |-> evs[i].content]

\* C1: in a turn in which the model requests a tool call in every response,
\* at most 2 model round-trips are made.
C1_AtMostTwoRoundTrips ==
  (/\ Len(respTools) > 0
   /\ \A i \in 1..Len(respTools) : respTools[i] > 0) => modelCalls <= 2

\* C2: on every path the done event is enqueued at most once and no event of
\* any type is enqueued after it.
C2_DoneLastAtMostOnce ==
  \A i \in 1..Len(out) : out[i].type = "done" => i = Len(out)

\* A follow-up round-trip failed: error, then done as the last event.
C2_Witness ==
  /\ pc = "done" /\ failedAt >= 1 /\ ~cancelled
  /\ Len(out) >= 3
  /\ out[Len(out)].type = "done"
  /\ out[Len(out) - 1].type = "error"

\* C3: a turn that is not cancelled and in which no model call fails
\* eventually has exactly one done event enqueued and the stream closed.
C3_EventuallyDoneAndClosed ==
  <>(/\ pc = "done"
     /\ streamState = "closed"
     /\ Len(EventsOfType(out, "done")) = 1)

\* The model asked for a tool in each of its three responses and the turn
\* ended with one done event.
C3_Witness ==
  /\ pc = "done" /\ streamState = "closed"
  /\ Len(EventsOfType(out, "done")) = 1
  /\ modelCalls = 3
  /\ \A i \in 1..Len(respTools) : respTools[i] > 0

\* C4: whenever a model call or stream read fails, at any depth, the client
\* stream gets exactly one error event followed by done before it is closed.
C4_ErrorThenDoneOnFailure ==
  (failedAt >= 0 /\ ~cancelled) =>
    /\ streamState = "closed"
    /\ Len(EventsOfType(out, "error")) = 1
    /\ Len(out) >= 2
    /\ out[Len(out)].type = "done"
    /\ out[Len(out) - 1].type = "error"

\* C5: after the caller cancels while the model stream is being read, no
\* executeTool call is started for the turn.
C5_NoToolStartAfterCancel == lateExec = 0

\* Closures the driver hands to safeControllerAction.
DriverOps ==
  {DoneOps, FollowUpErrorOps, HardStopOps, PostErrorOps}
    \cup {<<Enq(TextEvent(t))>> : t \in TextDeltas}
    \cup {<<Enq(ToolResultEvent(n, ExecResult(b, n, EmptyObject)))>> :
            n \in ToolNames, b \in BOOLEAN}

\* C6: once the stream is cancelled or closed, an attempt to enqueue or to
\* close through safeControllerAction delivers nothing, leaves the stream
\* state unchanged and raises nothing.
C6_WritesAfterCloseAreNoOps ==
  [][streamState # "readable" =>
       /\ out' = out
       /\ streamState' = streamState
       /\ \A ops \in DriverOps :
            LET r == SafeControllerAction(streamState, out, ops)
            IN  r.out = out /\ r.state = streamState /\ ~r.raised]_vars

\* The driver tried to write twice after the caller's cancellation.
C6_Witness == cancelled /\ lateAttempts >= 2 /\ pc = "done"

\* C7: in a non-cancelled turn the text events received are exactly the
\* non-empty text deltas the model sent inside text blocks, in order.
C7_TextForwardedOnceInOrder ==
  ~cancelled => TextContents(out) = modelText

\* Text of two round-trips was forwarded, in order.
C7_Witness ==
  /\ ~cancelled /\ pc = "done" /\ modelCalls = 2
  /\ modelText = <<"a", "b">>
  /\ TextContents(out) = <<"a", "b">>
  /\ Len(messages[3].content) = 2
  /\ messages[3].content[1].type = "text"
  /\ messages[3].content[1].text = "a"

\* C8: at block-stop the tool input is the parse of the concatenation of the
\* block's own fragments, or the empty object when that is not valid JSON;
\* nothing is parsed before block-stop.
C8_InputParsedAtBlockStop ==
  /\ \A i \in 1..Len(stopLog) :
       stopLog[i].input = IF JsonValid(stopLog[i].own)
                          THEN JsonValue(stopLog[i].own)
                          ELSE EmptyObject
  /\ currentToolBlock # 0 =>
       fullMessage[currentToolBlock].input = EmptyObject

\* The fragments {"a":1 and ,"b":2} gave the object {a:1, b:2}.
C8_Witness ==
  \E i \in 1..Len(stopLog) :
    /\ stopLog[i].own = FragOpenA \o FragBClose
    /\ stopLog[i].input = {<<"a", 1>>, <<"b", 2>>}

\* The payload the driver is to record for a result.
ExpectedPayload(result) ==
  IF result.success THEN result.data ELSE [error |-> result.error]

\* Number of tool_use blocks in the assistant turns before round r.
RECURSIVE ToolsBefore(_, _)
ToolsBefore(hist, r) ==
  IF r <= 1 THEN 0
  ELSE ToolsBefore(hist, r - 1)
         + Len(ToolUseBlocks(hist[2 * (r - 1) + 1].content))

\* C9: the tool-results turn appended to the history has one entry per
\* tool-use block of the assistant turn, the i-th with the id of the i-th
\* block and the outcome of executing that block's tool with its input, and
\* the earlier history is kept as a prefix.
C9_ResultsMatchToolCalls ==
  updatedMessages # <<>> =>
    /\ Len(updatedMessages) % 2 = 0
    /\ SubSeq(updatedMessages, 1, 2) = <<SystemMessage, UserMessage>>
    /\ \A r \in 1..((Len(updatedMessages) - 2) \div 2) :
         LET assistant == updatedMessages[2 * r + 1]
             results   == updatedMessages[2 * r + 2]
             bs        == ToolUseBlocks(assistant.content)
             base      == ToolsBefore(updatedMessages, r)
         IN  /\ assistant.role = "assistant"
             /\ results.role = "user"
             /\ Len(results.content) = Len(bs)
             /\ Len(execLog) >= base + Len(bs)
             /\ \A i \in 1..Len(bs) :
                  LET e == execLog[base + i] IN
                    /\ e.returned
                    /\ e.name = bs[i].name
                    /\ e.input = bs[i].input
                    /\ results.content[i].tool_use_id = bs[i].id
                    /\ results.content[i].content =
                         JsonStringify(ExpectedPayload(e.result))

\* Two rounds in the history, the first with two tool calls of different
\* outcomes.
C9_Witness ==
  /\ Len(updatedMessages) = 6
  /\ Len(updatedMessages[4].content) = 2
  /\ updatedMessages[4].content[1].tool_use_id = 1
  /\ updatedMessages[4].content[2].tool_use_id = 2
  /\ execLog[1].result.success # execLog[2].result.success

ReturnedExecs == SelectSeq(execLog, LAMBDA e : e.returned)

\* C10: a tool call whose result has success = false still gets its
\* tool_result event and an error payload in the tool-results turn, the
\* remaining tool calls are executed, the turn continues, and no error event
\* is emitted because of it.
C10_ToolFailureIsFolded ==
  /\ failedAt = -1 => Len(EventsOfType(out, "error")) = 0
  /\ ~cancelled =>
       LET evs == EventsOfType(out, "tool_result") IN
         /\ Len(evs) = Len(ReturnedExecs)
         /\ \A i \in 1..Len(evs) :
              /\ evs[i].result = ReturnedExecs[i].result
              /\ evs[i].tool_name = ReturnedExecs[i].name
  /\ pc \in {"tools", "awaitTool"} =>
       LET base == Len(ReturnedExecs) - Len(toolResults) IN
         /\ base >= 0
         /\ \A k \in 1..Len(toolResults) :
              LET e == ReturnedExecs[base + k] IN
                ~e.result.success =>
                  toolResults[k].content =
                    JsonStringify([error |-> e.result.error])
  /\ (pc = "done" /\ failedAt = -1) =>
       /\ Len(execLog) = nextId - 1
       /\ \A i \in 1..Len(respTools) :
            (respTools[i] > 0 /\ i <= FollowUpDepth) => modelCalls > i

\* The first of two tool calls of a response failed, the second was executed
\* and the model was called again.
C10_Witness ==
  /\ pc = "done" /\ failedAt = -1 /\ ~cancelled
  /\ Len(respTools) >= 2 /\ respTools[1] = 2
  /\ Len(execLog) >= 2
  /\ ~execLog[1].result.success
  /\ execLog[2].returned
  /\ Len(EventsOfType(out, "tool_result")) >= 2
  /\ Len(EventsOfType(out, "error")) = 0

\* C19: healthCheck returns healthy iff successes/total > 0.95, degraded iff
\* 0.80 < successes/total <= 0.95 and unhealthy otherwise, the rate being 0
\* when no request has been made.
C19_HealthThresholds ==
  health # NoCall =>
    LET s == metrics.successfulRequests
        t == metrics.totalRequests
    IN  /\ health.status = "healthy" <=> (t > 0 /\ 100 * s > 95 * t)
        /\ health.status = "degraded" <=>
             (t > 0 /\ 100 * s > 80 * t /\ 100 * s <= 95 * t)
        /\ health.status = "unhealthy" <=> (t = 0 \/ 100 * s <= 80 * t)

\* 19 successes among 20 requests are exactly 0.95: degraded.
C19_Witness ==
  /\ health # NoCall
  /\ metrics.totalRequests = 20 /\ metrics.successfulRequests = 19
  /\ health.status = "degraded"

\* C20: for every tool name and inputs a, b that are equal as mappings,
\* whatever their insertion order, generateCacheKey gives the same key.
C20_KeyIgnoresFieldOrder ==
  (keyPair # NoCall /\ keyPair.computed) =>
    (AsMapping(keyPair.a) = AsMapping(keyPair.b) =>
       keyPair.keyA = keyPair.keyB)

\* Three fields in two different orders got one key.
C20_Witness ==
  /\ keyPair # NoCall /\ keyPair.computed
  /\ Len(keyPair.a) = 3
  /\ keyPair.a # keyPair.b
  /\ AsMapping(keyPair.a) = AsMapping(keyPair.b)
  /\ keyPair.keyA = keyPair.keyB


\* C11: whatever the tool name, the input and the behaviour of the handler
\* and its hooks, the result executeTool resolves with has success = true and
\* no error descriptor, or success = false and an error descriptor whose code
\* is a member of ErrorCode.
C11_ResultInTaxonomy ==
  last # NoCall =>
    IF last.result.success
    THEN "error" \notin DOMAIN last.result
    ELSE /\ "error" \in DOMAIN last.result
         /\ last.result.error.code \in ErrorCode

\* A handler that threw a plain Error on every attempt has been answered
\* with a code of the taxonomy.
C11_Witness ==
  /\ last # NoCall
  /\ ~last.result.success
  /\ last.errors # <<>>
  /\ \A i \in 1..Len(last.errors) : last.errors[i] = PlainError
  /\ last.result.error.code \in ErrorCode

\* C12: with maxAttempts = N, a call that reaches executeWithRetries and
\* whose handler first succeeds on its k-th invocation (k <= N) has invoked
\* the handler k times and returns success with attempts = k; if all N
\* invocations fail the handler has been invoked N times and the failure has
\* attempts = N and carries the error of the last attempt.
C12_AttemptsCounted ==
  (last # NoCall /\ last.invocations > 0) =>
    LET N == ToolOf(last.toolName).retryConfig.maxAttempts
        failures == Len(last.errors)
    IN  IF last.result.success
        THEN /\ failures < N
             /\ last.invocations = failures + 1
             /\ last.result.attempts = failures + 1
        ELSE /\ failures = N
             /\ last.invocations = N
             /\ last.result.attempts = N
             /\ last.result.error.code = FromUnknown(last.errors[N]).code

\* The lookup failed twice on the external API and succeeded on its third
\* attempt.
C12_Witness ==
  /\ last # NoCall
  /\ last.toolName = "get_pokemon_info"
  /\ last.result.success
  /\ last.result.attempts = 3
  /\ last.errors = <<ExternalApiError, ExternalApiError>>

\* C13: an attempt whose handler does not settle within the timeout fails
\* with TOOL_TIMEOUT, and the later completion of that handler changes
\* neither the result executeTool returned, nor the cache, nor the metrics.
C13_LateCompletionDiscarded ==
  [][/\ \A i \in 1..Len(lateRuns') :
          lateRuns'[i].promise = Settled(Threw(ToolTimeoutError))
     /\ (\E i \in 1..Len(lateRuns) :
            lateRuns[i].running /\ ~lateRuns'[i].running)
          => /\ cache' = cache
             /\ metrics' = metrics
             /\ last' = last]_vars

\* The last attempt of a call timed out, the call returned TOOL_TIMEOUT and
\* the handler of that attempt has completed since.
C13_Witness ==
  /\ last # NoCall
  /\ ~last.result.success
  /\ last.result.error.code = "TOOL_TIMEOUT"
  /\ \E i \in 1..Len(lateRuns) : ~lateRuns[i].running

\* C14: a call that returns a failure with code INVALID_INPUT or
\* RATE_LIMIT_EXCEEDED has looked nothing up in the cache, has not invoked
\* the handler and has waited for no backoff, whichever component raised the
\* error.
C14_InputAndRateErrorsShortCircuit ==
  (/\ last # NoCall
   /\ ~last.result.success
   /\ last.result.error.code \in {"INVALID_INPUT", "RATE_LIMIT_EXCEEDED"})
    => /\ last.lookups = 0
       /\ last.invocations = 0
       /\ last.waited = 0

\* C15: when every attempt fails because the handler threw something that
\* is no taxonomy error, the failure carries the code TOOL_EXECUTION_FAILED.
C15_HandlerThrewCode ==
  (/\ last # NoCall
   /\ ~last.result.success
   /\ last.errors # <<>>
   /\ \A i \in 1..Len(last.errors) :
        last.errors[i].kind # "OrchestrationError")
    => last.result.error.code = "TOOL_EXECUTION_FAILED"

C17_CachedAnswerAlways ==
  (last # NoCall /\ last.fresh # {}) =>
    \A w \in last.fresh :
      /\ last.result.success
      /\ last.result.data = w.data
      /\ last.result.attempts = 0
      /\ last.invocations = 0

\* C17, amended: the same for every later call that the rate limiter admits.
C17_CachedAnswerWhenAdmitted ==
  (last # NoCall /\ last.fresh # {} /\ last.admitted) =>
    \A w \in last.fresh :
      /\ last.result.success
      /\ last.result.data = w.data
      /\ last.result.attempts = 0
      /\ last.invocations = 0

\* An admitted call has been answered from an entry that an earlier call
\* stored.
C17_Witness ==
  /\ last # NoCall
  /\ last.admitted
  /\ \E w \in last.fresh : last.startedAt >= w.at
  /\ last.result.success
  /\ last.result.attempts = 0

\* C18: after any sequence of completed calls successfulRequests is the
\* number of calls that returned success = true and the sum of errorsByTool
\* the number that returned success = false, so that both add up to
\* totalRequests, calls answered from the cache included.
C18_MetricsCountResults ==
  opc = "idle" =>
    /\ metrics.successfulRequests = tally.ok
    /\ SumByTool(metrics.errorsByTool) = tally.failed
    /\ metrics.successfulRequests + SumByTool(metrics.errorsByTool)
         = metrics.totalRequests

\* C21: get at time t of a key whose entry was inserted at t0 with TTL d:
\* if t - t0 > d it reports not-found, removes the entry from the store and
\* from the recency map and counts one miss; otherwise it returns the stored
\* value, increments the entry's hit counter by one, gives the key the
\* highest recency of all entries and counts one hit.
C21_GetExpiresOrHits ==
  [][(/\ lru # NoCall
      /\ lru'.ops = lru.ops + 1
      /\ lru'.returned # NoCall
      /\ lru'.returned.op = "get"
      /\ lru'.returned.key \in DOMAIN lru.entries) =>
       LET key == lru'.returned.key
           e   == lru.entries[key]
       IN  IF lru.now - e.timestamp > e.ttlMs
           THEN /\ lru'.returned.value = "null"
                /\ key \notin DOMAIN lru'.entries
                /\ key \notin DOMAIN lru'.accessOrder
                /\ lru'.metrics.misses = lru.metrics.misses + 1
                /\ lru'.metrics.hits = lru.metrics.hits
           ELSE /\ lru'.returned.value = e.data
                /\ lru'.entries[key].hits = e.hits + 1
                /\ \A x \in DOMAIN lru'.accessOrder \ {key} :
                     lru'.accessOrder[key] > lru'.accessOrder[x]
                /\ lru'.metrics.hits = lru.metrics.hits + 1
                /\ lru'.metrics.misses = lru.metrics.misses]_vars

\* A get has hit the older of two entries.
C21_Witness ==
  /\ lru # NoCall
  /\ lru.returned # NoCall
  /\ lru.returned.op = "get"
  /\ lru.returned.value # "null"
  /\ \E x \in DOMAIN lru.entries :
       /\ x # lru.returned.key
       /\ lru.entries[x].timestamp >= lru.entries[lru.returned.key].timestamp
       /\ lru.accessOrder[x] = lru.accessOrder[lru.returned.key] - 1

\* C22: set of a key that is not in the store while the store holds maxSize
\* entries removes exactly one entry, the one with the smallest access
\* counter, and then inserts the key; set of a key that is in the store
\* evicts nothing.
C22_SetEvictsLeastRecent ==
  [][(/\ lru # NoCall
      /\ lru'.ops = lru.ops + 1
      /\ lru'.returned # NoCall
      /\ lru'.returned.op = "set") =>
       LET key  == lru'.returned.key
           keys == DOMAIN lru.entries
       IN  /\ key \in DOMAIN lru'.entries
           /\ (key \notin keys /\ Cardinality(keys) = CacheMaxSize) =>
                \E victim \in keys :
                  /\ \A x \in keys :
                       lru.accessOrder[victim] <= lru.accessOrder[x]
                  /\ DOMAIN lru'.entries = (keys \ {victim}) \cup {key}
                  /\ \A x \in keys \ {victim} :
                       lru'.entries[x] = lru.entries[x]
                  /\ lru'.metrics.evictions = lru.metrics.evictions + 1
           /\ key \in keys =>
                /\ DOMAIN lru'.entries = keys
                /\ lru'.metrics.evictions = lru.metrics.evictions]_vars

\* C23: cleanup at time t removes exactly the entries whose age exceeds
\* their TTL, returns the number of entries it removed and leaves every
\* other entry with its hit counter and its recency, and the hit and miss
\* counters, as they are.
C23_CleanupRemovesExpired ==
  [][(/\ lru # NoCall
      /\ lru'.ops = lru.ops + 1
      /\ lru'.returned # NoCall
      /\ lru'.returned.op = "cleanup") =>
       LET keys    == DOMAIN lru.entries
           expired == {k \in keys :
                         lru.now - lru.entries[k].timestamp > lru.entries[k].ttlMs}
       IN  /\ DOMAIN lru'.entries = keys \ expired
           /\ DOMAIN lru'.accessOrder = keys \ expired
           /\ lru'.returned.cleaned = Cardinality(expired)
           /\ \A k \in keys \ expired :
                /\ lru'.entries[k] = lru.entries[k]
                /\ lru'.accessOrder[k] = lru.accessOrder[k]
           /\ lru'.metrics = lru.metrics]_vars

\* A cleanup has removed one entry and kept another.
C23_Witness ==
  /\ lru # NoCall
  /\ lru.returned # NoCall
  /\ lru.returned.op = "cleanup"
  /\ lru.returned.cleaned = 1
  /\ Cardinality(DOMAIN lru.entries) = 1

C26_TtlByCategory ==
  \A w \in stored :
    LET category == ToolOf(w.toolName).category
    IN  w.ttlMs = CASE category = "pokemon" -> 24 * 60 * 60 * 1000
                    [] category = "team" -> 4 * 60 * 60 * 1000
                    [] OTHER -> DefaultTtlMs

\* C28: executeTool applies its checks in the order tool lookup, rate limit,
\* input validation, cache lookup: a call to an unregistered tool fails with
\* TOOL_NOT_FOUND and leaves the rate-limit state alone; a call over the
\* limit fails with RATE_LIMIT_EXCEEDED also when its input is invalid or
\* its result is cached; a call within the limit whose input is invalid
\* fails with INVALID_INPUT after it has taken one slot of the window.
C28_CheckOrder ==
  [][(calls' = calls + 1) =>
       LET c == IF call' # NoCall THEN call' ELSE last'
           n == c.toolName
           failedWith(code) == /\ last' # NoCall
                               /\ ~last'.result.success
                               /\ last'.result.error.code = code
       IN  IF n \notin RegisteredNames
           THEN failedWith("TOOL_NOT_FOUND") /\ rateLimits' = rateLimits
           ELSE
             LET tool == ToolOf(n)
                 known == n \in DOMAIN rateLimits
                 inWindow == known /\ now - rateLimits[n].windowStart
                                        < tool.rateLimit.windowMs
                 over == inWindow /\ rateLimits[n].requests
                                       >= tool.rateLimit.maxRequests
                 invalid ==
                   \/ \E i \in 1..Len(tool.required) :
                        \A j \in 1..Len(c.input) :
                          c.input[j].key # tool.required[i]
                   \/ \E j \in 1..Len(c.input) :
                        \E prop \in tool.properties :
                          /\ prop[1] = c.input[j].key
                          /\ c.input[j].value.type # prop[2]
             IN  /\ over => failedWith("RATE_LIMIT_EXCEEDED")
                 /\ (~over /\ invalid) =>
                      /\ failedWith("INVALID_INPUT")
                      /\ last'.lookups = 0
                      /\ rateLimits'[n].requests =
                           IF inWindow THEN rateLimits[n].requests + 1 ELSE 1]_vars

\* A call over the limit has been refused with RATE_LIMIT_EXCEEDED although
\* the cache holds a fresh result for it.
C28_Witness ==
  /\ last # NoCall
  /\ ~last.result.success
  /\ last.result.error.code = "RATE_LIMIT_EXCEEDED"
  /\ last.fresh # {}
  /\ last.lookups = 0

\* C29 as stated: the cache lookup precedes the rate-limit check, so a call
\* for which the cache holds a fresh result is never rejected with
\* RATE_LIMIT_EXCEEDED, and a call answered from the cache leaves the
\* tool's rate-limit counter as it is.
C29_CacheBeforeRateLimit ==
  [][(calls' = calls + 1 /\ last' # NoCall /\ last'.fresh # {}) =>
       /\ ~(/\ ~last'.result.success
            /\ last'.result.error.code = "RATE_LIMIT_EXCEEDED")
       /\ (last'.result.success /\ last'.result.attempts = 0)
            => rateLimits' = rateLimits]_vars

\* C29, amended: the rate-limit check precedes the validation and the
\* validation the cache lookup, so a call answered from the cache has passed
\* the rate-limit check and taken one slot of the window, and a call over
\* the limit is rejected also when the cache holds a fresh result for it.
C29_RateLimitBeforeCache ==
  [][(calls' = calls + 1 /\ last' # NoCall /\ last'.fresh # {}) =>
       LET n == last'.toolName
           tool == ToolOf(n)
           inWindow == n \in DOMAIN rateLimits
                         /\ now - rateLimits[n].windowStart
                              < tool.rateLimit.windowMs
           over == inWindow /\ rateLimits[n].requests
                                 >= tool.rateLimit.maxRequests
       IN  IF over
           THEN /\ ~last'.result.success
                /\ last'.result.error.code = "RATE_LIMIT_EXCEEDED"
                /\ last'.lookups = 0
           ELSE /\ last'.result.success /\ last'.result.attempts = 0
                /\ last'.admitted
                /\ last'.lookups = 1
                /\ rateLimits'[n].requests =
                     IF inWindow THEN rateLimits[n].requests + 1 ELSE 1]_vars

\* A call has been answered from the cache and counted as the second
\* request of the tool's window.
C29_Witness ==
  /\ last # NoCall
  /\ last.result.success /\ last.result.attempts = 0
  /\ last.fresh # {}
  /\ last.admitted
  /\ rateLimits[last.toolName].requests = 2

C27_NoLostUpdate ==
  procs # NoCall =>
    /\ metrics.totalRequests = SumByTool(procs.started)
    /\ \A n \in CalledNames : metrics.requestsByTool[n] = procs.started[n]
    /\ \A n \in RegisteredNames :
         /\ procs.before[n]
              + Len(SelectSeq(procs.admitted,
                              LAMBDA a : a.toolName = n /\ a.windowStart = 0))
              <= ToolOf(n).rateLimit.maxRequests
         /\ \A i \in 1..Len(procs.admitted) :
              procs.admitted[i].toolName = n =>
                Len(SelectSeq(procs.admitted,
                      LAMBDA a : /\ a.toolName = n
                                 /\ a.windowStart
                                      = procs.admitted[i].windowStart))
                  + (IF procs.admitted[i].windowStart = 0
                     THEN procs.before[n] ELSE 0)
                  <= ToolOf(n).rateLimit.maxRequests

\* While one call for a tool is suspended in its handler, having taken the
\* last slot of the window, an overlapping call for the same tool has been
\* counted and refused.
C27_Witness ==
  /\ procs # NoCall
  /\ now = 0
  /\ \E p \in ConcIds : \E q \in ConcIds :
       /\ procs.calls[p].pc = "running"
       /\ procs.calls[q].pc = "done"
       /\ procs.calls[q].result = "RATE_LIMIT_EXCEEDED"
       /\ procs.calls[q].toolName = procs.calls[p].toolName
       /\ metrics.requestsByTool[procs.calls[p].toolName] =
            ToolOf(procs.calls[p].toolName).rateLimit.maxRequests + 1

C32_RequestIdsDiffer ==
  procs # NoCall =>
    \A p \in ConcIds : \A q \in ConcIds :
      (/\ p # q
       /\ procs.calls[p].pc # "idle"
       /\ procs.calls[q].pc # "idle")
        => procs.calls[p].requestId # procs.calls[q].requestId

\* C33: the result is a success only if the handler's own result reported
\* success.
C33_SuccessOnlyIfHandlerSucceeded ==
  (retry # NoCall /\ retry.state = "done" /\ retry.success)
    => retry.reported = "success"

\* C34 as stated: while an attempt of a call runs the handler, no handler
\* invocation of an earlier attempt of that call is still in progress.
C34_OneInvocationAtATime ==
  opc = "attempt" =>
    \A i \in 1..Len(lateRuns) :
      ~(lateRuns[i].running /\ lateRuns[i].callNo = calls)

\* C34, amended: an attempt starts only after the previous attempt has
\* ended, and the handler invocations of earlier attempts of the call that
\* are still in progress are those of attempts that ended by timeout, at
\* most one for each of them.
C34_OnlyTimedOutInvocationsOverlap ==
  call # NoCall =>
    LET running == {i \in 1..Len(lateRuns) :
                      lateRuns[i].running /\ lateRuns[i].callNo = calls}
    IN  /\ Len(call.errors) = call.attempt - (IF opc = "attempt" THEN 1 ELSE 0)
        /\ \A i \in running :
             /\ lateRuns[i].attempt <= Len(call.errors)
             /\ call.errors[lateRuns[i].attempt].code = "TOOL_TIMEOUT"
             /\ \A j \in running :
                  lateRuns[j].attempt = lateRuns[i].attempt => j = i

\* The second attempt of a call runs the handler while the invocation of
\* the first attempt, which timed out, is still in progress.
C34_Witness ==
  /\ opc = "attempt" /\ call.attempt = 2
  /\ \E i \in 1..Len(lateRuns) :
       /\ lateRuns[i].running
       /\ lateRuns[i].callNo = calls
       /\ lateRuns[i].attempt = 1

\* C35: executeWithRetries eventually returns, after at most maxAttempts
\* attempts, also when no handler invocation ever settles.
C35_EventuallyReturns ==
  <>(/\ retry.state = "done"
     /\ retry.attempts <= RetryConfigOf(retry.tool).maxAttempts
     /\ retry.attempts = Len(retry.armed))

\* The call has returned after every one of three attempts timed out.
C35_Witness ==
  /\ retry # NoCall
  /\ retry.state = "done"
  /\ retry.errors = <<"TOOL_TIMEOUT", "TOOL_TIMEOUT", "TOOL_TIMEOUT">>

\* C36: after any sequence of get, set, delete, clear, cleanup and
\* warmCache the store holds at most maxSize entries, and the recency map
\* holds exactly the keys of the store, with pairwise distinct counters.
C36_SizeAndRecency ==
  lru # NoCall =>
    /\ Cardinality(DOMAIN lru.entries) <= CacheMaxSize
    /\ DOMAIN lru.accessOrder = DOMAIN lru.entries
    /\ \A x \in DOMAIN lru.accessOrder : \A y \in DOMAIN lru.accessOrder :
         lru.accessOrder[x] = lru.accessOrder[y] => x = y

\* C37: every successful executeTool of get_random_pokemon has invoked
\* RandomPokemonHandler.
C37_RandomNeverFromCache ==
  (random # NoCall /\ random.returned.success) => random.returned.invoked

\* ------------------------------------------------------------------ C38
\* C38: the driver's hard stop is unreachable: processConversation is never
\* entered with depth > 5, the recursion depth never exceeds 2, and the
\* 'Maximum conversation depth reached' error event is never emitted.
C38_HardStopUnreachable ==
  /\ depth <= FollowUpDepth
  /\ depth <= HardStopDepth
  /\ \A i \in 1..Len(out) : out[i] # ErrorEvent(ErrDepth)

\* A conversation that used tools at every level ended at depth 2.
C38_Witness ==
  /\ depth = FollowUpDepth
  /\ pc = "done"
  /\ modelCalls = FollowUpDepth + 1
  /\ Len(out) > 0 /\ out[Len(out)] = DoneEvent


\* ------------------------------------------------------------------ C39
\* C39: generateCacheKey serializes every value of the input: two inputs of
\* one tool with the same top-level keys that differ in the value of a
\* field nested inside an object-valued field are serialized to different
\* strings before hashing.
C39_NestedValuesSerialized ==
  (/\ keyPair # NoCall /\ keyPair.computed
   /\ {keyPair.a[i].key : i \in 1..Len(keyPair.a)}
        = {keyPair.b[j].key : j \in 1..Len(keyPair.b)}
   /\ \E i \in 1..Len(keyPair.a), j \in 1..Len(keyPair.b) :
        /\ keyPair.a[i].key = keyPair.b[j].key
        /\ keyPair.a[i].value.type = "object"
        /\ keyPair.b[j].value.type = "object"
        /\ keyPair.a[i].value # keyPair.b[j].value)
    => keyPair.strA # keyPair.strB

====
